---- MODULE Spec2Model ----
(***************************************************************************)
(* Model of backend/app.py: the global link registry (GLOBAL_LINKS), the   *)
(* duplicate classification (check_global_duplicates), registration        *)
(* (register_links_globally), the review sessions (SESSIONS), the user     *)
(* upload handler, the admin upload-and-assign handler with its guard and  *)
(* its range / percentage planner, and the status update handler.          *)
(*                                                                         *)
(* The Flask server runs threaded and the handlers take no lock, so a      *)
(* handler is modelled as the steps between which another request can run: *)
(* the classification of a batch reads GLOBAL_LINKS, the registration      *)
(* writes it later.                                                        *)
(***************************************************************************)
EXTENDS Integers, Sequences, FiniteSets, TLC

(***************************************************************************)
(* Bounds of the model.                                                    *)
(***************************************************************************)
\* longest batch (rows of an uploaded CSV) of the classification checks
MaxBatch == 3
\* longest batch of the planner specification
MaxPlanBatch == 3
\* most shares in one admin request
MaxShares == 2
\* requests started in one behaviour of the whole-system specification
MaxRequests == 2
\* the clock stops here
MaxTime == 2
\* status updates in one behaviour of the status specification
MaxUpdates == 2
\* requests in one behaviour of the specification of protected routes
MaxAuthRequests == 4
\* signup requests in one behaviour of the signup specification
MaxSignups == 3
\* requests in one behaviour of the specification of requests in flight
MaxFlights == 2
\* requests in one behaviour of the session access specification
MaxAccesses == 3
\* longest list of links of the registration specification
MaxRegBatch == 2
\* calls of register_links_globally in one behaviour of that specification
MaxCalls == 2

(***************************************************************************)
(* Program constants. Time is counted in units of 24 hours.                *)
(***************************************************************************)
SESSION_TIMEOUT == 1
\* AUTH_TOKEN_TIMEOUT, in ticks of the clock
AUTH_TOKEN_TIMEOUT == 1

(***************************************************************************)
(* Values.                                                                 *)
(***************************************************************************)
\* pandas reads an empty CSV cell as the float NaN
NaN == "NaN"
\* the cells of the link column: clean links, a padded link, a blank cell
Cells == {"a", " a ", "b", " ", NaN}
\* the server handles every request on a thread of its own; two run at a time
Threads == {1, 2}
\* the user store: user_id -> record
USERS == [u \in {"u1", "u2"} |->
            IF u = "u1" THEN [username |-> "alice", email |-> "alice@x", name |-> "Alice",
                              password_hash |-> <<"hash", "secret1">>]
                        ELSE [username |-> "bob", email |-> "bob@x", name |-> "Bob",
                              password_hash |-> <<"hash", "secret2">>]]
\* user ids a request can name: the known ones and one unknown
UserIds == {"u1", "u2", "ux"}

Range(s) == {s[i] : i \in 1..Len(s)}
SeqsUpTo(S, n) == UNION {[1..k -> S] : k \in 0..n}
NonEmptySeqsUpTo(S, n) == UNION {[1..k -> S] : k \in 1..n}

\* str(x): the string form of a cell; NaN prints as "nan"
PyStr(cell) == IF cell = NaN THEN "nan" ELSE cell
\* s.strip()
Strip(s) == CASE s = " a " -> "a"
              [] s = " "   -> ""
              [] s = " carol " -> "carol"
              [] OTHER     -> s
\* str(link).strip()
link_clean_of(cell) == Strip(PyStr(cell))

CleanLinks == {link_clean_of(c) : c \in Cells} \ {""}

VARIABLES
  GLOBAL_LINKS,      \* link -> registry entry (a dict: its domain is the keys)
  SESSIONS,          \* session token -> session
  WORK_ASSIGNMENTS,  \* the work-assignment records, in creation order
  now,               \* datetime.now()
  tokens,            \* session tokens generated so far
  started,           \* requests started so far
  req,               \* thread -> the request it runs: position and locals
  AUTH_TOKENS,       \* auth token -> token data
  users              \* the dict USERS as signup fills it: user_id -> record

vars == <<GLOBAL_LINKS, SESSIONS, WORK_ASSIGNMENTS, now, tokens, started, req,
          AUTH_TOKENS, users>>

(***************************************************************************)
(* check_global_duplicates                                                 *)
(***************************************************************************)
\* cgd_body that starts its seen-set afresh at a blank cell
cgd_body_blank_resets(acc, link, GL) ==
  LET link_clean == link_clean_of(link) IN
  IF link_clean = "" THEN [acc EXCEPT !.seen_in_current = {}]
  ELSE IF link_clean \in acc.seen_in_current
  THEN [acc EXCEPT !.within_file_duplicates =
          Append(@, [link |-> link_clean, type |-> "within_file"])]
  ELSE IF link_clean \in DOMAIN GL
  THEN [acc EXCEPT !.seen_in_current = @ \cup {link_clean},
                   !.global_duplicates =
          Append(@, [link |-> link_clean,
                     first_uploaded_by |-> GL[link_clean].first_uploaded_by,
                     first_uploaded_at |-> GL[link_clean].first_uploaded_at,
                     upload_count |-> GL[link_clean].upload_count,
                     type |-> "global_duplicate"])]
  ELSE [acc EXCEPT !.seen_in_current = @ \cup {link_clean},
                   !.new_links = Append(@, link_clean)]

\* cgd_body with a seen-set of the cells as they come, untrimmed
cgd_body_sees_raw(acc, link, GL) ==
  LET link_clean == link_clean_of(link) IN
  IF link_clean = "" THEN acc
  ELSE IF link \in acc.seen_in_current
  THEN [acc EXCEPT !.within_file_duplicates =
          Append(@, [link |-> link_clean, type |-> "within_file"])]
  ELSE IF link_clean \in DOMAIN GL
  THEN [acc EXCEPT !.seen_in_current = @ \cup {link},
                   !.global_duplicates =
          Append(@, [link |-> link_clean,
                     first_uploaded_by |-> GL[link_clean].first_uploaded_by,
                     first_uploaded_at |-> GL[link_clean].first_uploaded_at,
                     upload_count |-> GL[link_clean].upload_count,
                     type |-> "global_duplicate"])]
  ELSE [acc EXCEPT !.seen_in_current = @ \cup {link},
                   !.new_links = Append(@, link_clean)]

\* cgd_body without the skip of blank links (lines 186-187 left out)
cgd_body_keeps_blank(acc, link, GL) ==
  LET link_clean == link_clean_of(link) IN
  IF link_clean \in acc.seen_in_current
  THEN [acc EXCEPT !.within_file_duplicates =
          Append(@, [link |-> link_clean, type |-> "within_file"])]
  ELSE IF link_clean \in DOMAIN GL
  THEN [acc EXCEPT !.seen_in_current = @ \cup {link_clean},
                   !.global_duplicates =
          Append(@, [link |-> link_clean,
                     first_uploaded_by |-> GL[link_clean].first_uploaded_by,
                     first_uploaded_at |-> GL[link_clean].first_uploaded_at,
                     upload_count |-> GL[link_clean].upload_count,
                     type |-> "global_duplicate"])]
  ELSE [acc EXCEPT !.seen_in_current = @ \cup {link_clean},
                   !.new_links = Append(@, link_clean)]

\* cgd_body that does not record a new link as seen (line 197 after the lookup)
cgd_body_forgets_seen(acc, link, GL) ==
  LET link_clean == link_clean_of(link) IN
  IF link_clean = "" THEN acc
  ELSE IF link_clean \in acc.seen_in_current
  THEN [acc EXCEPT !.within_file_duplicates =
          Append(@, [link |-> link_clean, type |-> "within_file"])]
  ELSE IF link_clean \in DOMAIN GL
  THEN [acc EXCEPT !.seen_in_current = @ \cup {link_clean},
                   !.global_duplicates =
          Append(@, [link |-> link_clean,
                     first_uploaded_by |-> GL[link_clean].first_uploaded_by,
                     first_uploaded_at |-> GL[link_clean].first_uploaded_at,
                     upload_count |-> GL[link_clean].upload_count,
                     type |-> "global_duplicate"])]
  ELSE [acc EXCEPT !.new_links = Append(@, link_clean)]

\* the body of the loop over the batch, lines 185-209
cgd_body(acc, link, GL) ==
  LET link_clean == link_clean_of(link) IN
  IF link_clean = "" THEN acc
  ELSE IF link_clean \in acc.seen_in_current
  THEN [acc EXCEPT !.within_file_duplicates =
          Append(@, [link |-> link_clean, type |-> "within_file"])]
  ELSE IF link_clean \in DOMAIN GL
  THEN [acc EXCEPT !.seen_in_current = @ \cup {link_clean},
                   !.global_duplicates =
          Append(@, [link |-> link_clean,
                     first_uploaded_by |-> GL[link_clean].first_uploaded_by,
                     first_uploaded_at |-> GL[link_clean].first_uploaded_at,
                     upload_count |-> GL[link_clean].upload_count,
                     type |-> "global_duplicate"])]
  ELSE [acc EXCEPT !.seen_in_current = @ \cup {link_clean},
                   !.new_links = Append(@, link_clean)]

RECURSIVE cgd_loop(_, _, _, _)
cgd_loop(links_list, i, acc, GL) ==
  IF i > Len(links_list) THEN acc
  ELSE cgd_loop(links_list, i + 1, cgd_body(acc, links_list[i], GL), GL)

check_global_duplicates(links_list, GL) ==
  LET r == cgd_loop(links_list, 1,
             [within_file_duplicates |-> <<>>, global_duplicates |-> <<>>,
              new_links |-> <<>>, seen_in_current |-> {}], GL)
  IN [within_file_duplicates |-> r.within_file_duplicates,
      global_duplicates |-> r.global_duplicates,
      new_links |-> r.new_links,
      within_file_count |-> Len(r.within_file_duplicates),
      global_duplicate_count |-> Len(r.global_duplicates),
      new_count |-> Len(r.new_links)]

(***************************************************************************)
(* register_links_globally: the registry after the call                    *)
(***************************************************************************)
\* register_body that updates the entries there are and creates none
register_body_creates_none(GL, link, username, t) ==
  LET link_clean == link_clean_of(link) IN
  IF link_clean = "" THEN GL
  ELSE IF link_clean \in DOMAIN GL
  THEN [GL EXCEPT ![link_clean] =
          [@ EXCEPT !.upload_count = @ + 1,
                    !.last_uploaded_by = username,
                    !.last_uploaded_at = t]]
  ELSE GL

\* register_body that writes a fresh entry over the one there is
register_body_resets_count(GL, link, username, t) ==
  LET link_clean == link_clean_of(link) IN
  IF link_clean = "" THEN GL
  ELSE [l \in DOMAIN GL \cup {link_clean} |->
          IF l = link_clean
          THEN [first_uploaded_by |-> username, first_uploaded_at |-> t,
                upload_count |-> 1,
                last_uploaded_by |-> username, last_uploaded_at |-> t]
          ELSE GL[l]]

\* register_body that rewrites first_* of an entry it updates
register_body_resets_first(GL, link, username, t) ==
  LET link_clean == link_clean_of(link) IN
  IF link_clean = "" THEN GL
  ELSE IF link_clean \in DOMAIN GL
  THEN [GL EXCEPT ![link_clean] =
          [@ EXCEPT !.upload_count = @ + 1,
                    !.first_uploaded_by = username,
                    !.first_uploaded_at = t,
                    !.last_uploaded_by = username,
                    !.last_uploaded_at = t]]
  ELSE [l \in DOMAIN GL \cup {link_clean} |->
          IF l = link_clean
          THEN [first_uploaded_by |-> username, first_uploaded_at |-> t,
                upload_count |-> 1,
                last_uploaded_by |-> username, last_uploaded_at |-> t]
          ELSE GL[l]]

\* the body of the loop over the links, lines 227-245
register_body(GL, link, username, t) ==
  LET link_clean == link_clean_of(link) IN
  IF link_clean = "" THEN GL
  ELSE IF link_clean \in DOMAIN GL
  THEN [GL EXCEPT ![link_clean] =
          [@ EXCEPT !.upload_count = @ + 1,
                    !.last_uploaded_by = username,
                    !.last_uploaded_at = t]]
  ELSE [l \in DOMAIN GL \cup {link_clean} |->
          IF l = link_clean
          THEN [first_uploaded_by |-> username, first_uploaded_at |-> t,
                upload_count |-> 1,
                last_uploaded_by |-> username, last_uploaded_at |-> t]
          ELSE GL[l]]

RECURSIVE register_loop(_, _, _, _, _)
register_loop(links, i, username, t, GL) ==
  IF i > Len(links) THEN GL
  ELSE register_loop(links, i + 1, username, t,
                     register_body(GL, links[i], username, t))

register_links_globally(links, username, t, GL) ==
  register_loop(links, 1, username, t, GL)

\* registered_count, the value the call returns: one more for every pass of the
\* loop that takes the branch of a new entry (line 245)
RECURSIVE registered_count_loop(_, _, _, _, _)
registered_count_loop(links, i, username, t, GL) ==
  IF i > Len(links) THEN 0
  ELSE (IF link_clean_of(links[i]) # "" /\ link_clean_of(links[i]) \notin DOMAIN GL
        THEN 1 ELSE 0)
       + registered_count_loop(links, i + 1, username, t,
                               register_body(GL, links[i], username, t))

registered_count(links, username, t, GL) ==
  registered_count_loop(links, 1, username, t, GL)

(***************************************************************************)
(* Requests                                                                *)
(***************************************************************************)
NoReport == check_global_duplicates(<<>>, <<>>)
NoResp == [code |-> 0, error |-> "", names |-> <<>>]
Idle == [pc |-> "idle", op |-> "", user |-> "", df |-> <<>>, dup_check |-> NoReport,
         df_clean |-> <<>>, assignment_type |-> "", assignments |-> <<>>,
         created |-> <<>>, session_token |-> 0, link |-> "", status |-> "",
         feedback |-> "", registered_count |-> 0, link_index |-> 1,
         persist_failed |-> FALSE, total_duplicates |-> 0, columns |-> <<>>,
         session |-> <<>>, auth_token |-> 0, form |-> <<>>, resp |-> NoResp]

\* a thread is free when it runs no request (its last response stays readable)
Free(t) == req[t].pc \in {"idle", "done"}
\* a new request runs on the first free thread (which thread is of no consequence)
Worker(t) == Free(t) /\ \A t2 \in Threads : t2 < t => ~Free(t2)

\* df[df['link'].isin(new_links_list)]: the rows whose cell, as it is, is in the list
isin(df, values) == SelectSeq(df, LAMBDA cell : cell \in Range(values))

\* the rows of a session: to_dict('records') after the three columns are added
records(df, name) ==
  [i \in 1..Len(df) |->
     [link |-> df[i], Status |-> "", Feedback |-> "", Verified_By |-> name]]

expires(t) == t + SESSION_TIMEOUT

\* d[k] = v on a dict
put(d, k, v) == [x \in DOMAIN d \cup {k} |-> IF x = k THEN v ELSE d[x]]

\* generate_token(): a token no earlier call returned
generate_token(n) == n + 1

\* a call of register_links_globally on its own, lines 220-250
RegisterCall(t, links, username) ==
  /\ Worker(t)
  /\ started' = started + 1
  /\ GLOBAL_LINKS' = register_links_globally(links, username, now, GLOBAL_LINKS)
  /\ req' = [req EXCEPT ![t] =
               [Idle EXCEPT !.pc = "done", !.op = "register", !.user = username,
                            !.df = links,
                            !.registered_count =
                               registered_count(links, username, now, GLOBAL_LINKS)]]
  /\ UNCHANGED <<SESSIONS, WORK_ASSIGNMENTS, now, tokens>>
  /\ UNCHANGED <<AUTH_TOKENS, users>>

(***************************************************************************)
(* upload_csv                                                              *)
(***************************************************************************)
\* lines 1371-1396: the session of a user's upload
upload_session(user, df_clean, tnow) ==
  [data |-> records(df_clean, user.name),
   username |-> user.username,
   name |-> user.name,
   expires_at |-> expires(tnow),
   assigned_by_admin |-> FALSE,
   assigned_count |-> Len(df_clean),
   assigned_range |-> "",
   assigned_percentage |-> 0]

\* UploadClassify with a classification that enters the new links in the registry
\* as it finds them
UploadClassify_registers(t, user, df) ==
  /\ Worker(t)
  /\ started' = started + 1
  /\ LET dup_check == check_global_duplicates(df, GLOBAL_LINKS) IN
     /\ req' = [req EXCEPT ![t] =
                  [Idle EXCEPT !.pc = "upload_register", !.op = "upload",
                               !.user = user, !.df = df,
                               !.dup_check = dup_check,
                               !.total_duplicates = dup_check.within_file_count
                                                    + dup_check.global_duplicate_count,
                               !.df_clean = isin(df, dup_check.new_links)]]
     /\ GLOBAL_LINKS' = register_links_globally(dup_check.new_links,
                            USERS[user].username, now, GLOBAL_LINKS)
  /\ UNCHANGED <<SESSIONS, WORK_ASSIGNMENTS, now, tokens>>
  /\ UNCHANGED <<AUTH_TOKENS, users>>

\* lines 1353-1366: classify the batch, keep the rows whose link is new
UploadClassify(t, user, df) ==
  /\ Worker(t)
  /\ started' = started + 1
  /\ LET dup_check == check_global_duplicates(df, GLOBAL_LINKS) IN
     req' = [req EXCEPT ![t] =
               [Idle EXCEPT !.pc = "upload_register", !.op = "upload",
                            !.user = user, !.df = df,
                            !.dup_check = dup_check,
                            !.total_duplicates = dup_check.within_file_count
                                                 + dup_check.global_duplicate_count,
                            !.df_clean = isin(df, dup_check.new_links)]]
  /\ UNCHANGED <<GLOBAL_LINKS, SESSIONS, WORK_ASSIGNMENTS, now, tokens>>
  /\ UNCHANGED <<AUTH_TOKENS, users>>

\* lines 1369-1412: register the new links, create the session, answer
UploadRegister(t) ==
  /\ req[t].pc = "upload_register"
  /\ LET r == req[t]
         session_token == generate_token(tokens)
     IN /\ GLOBAL_LINKS' = register_links_globally(r.dup_check.new_links,
                              USERS[r.user].username, now, GLOBAL_LINKS)
        /\ tokens' = session_token
        /\ SESSIONS' = [k \in DOMAIN SESSIONS \cup {session_token} |->
             IF k = session_token THEN upload_session(USERS[r.user], r.df_clean, now)
             ELSE SESSIONS[k]]
        /\ req' = [req EXCEPT ![t] =
             [r EXCEPT !.pc = "done", !.created = <<session_token>>,
                       !.resp = [code |-> 200, error |-> "", names |-> <<>>]]]
  /\ UNCHANGED <<WORK_ASSIGNMENTS, now, started>>
  /\ UNCHANGED <<AUTH_TOKENS, users>>

(***************************************************************************)
(* upload_csv with the loop of register_links_globally taken apart: the    *)
(* handlers hold no lock, so another thread can run between the test       *)
(* `link_clean in GLOBAL_LINKS` (line 231) and the write that follows it.  *)
(* link_index is the position of the loop in new_links.                    *)
(***************************************************************************)
\* line 231: the test, which picks the branch
RegisterTest(t) ==
  /\ req[t].pc = "upload_register"
  /\ req[t].link_index <= Len(req[t].dup_check.new_links)
  /\ LET link_clean == link_clean_of(req[t].dup_check.new_links[req[t].link_index]) IN
     req' = [req EXCEPT ![t] =
               IF link_clean = "" THEN [@ EXCEPT !.link_index = @ + 1]
               ELSE IF link_clean \in DOMAIN GLOBAL_LINKS
               THEN [@ EXCEPT !.pc = "reg_update"]
               ELSE [@ EXCEPT !.pc = "reg_create"]]
  /\ UNCHANGED <<GLOBAL_LINKS, SESSIONS, WORK_ASSIGNMENTS, now, tokens, started>>
  /\ UNCHANGED <<AUTH_TOKENS, users>>

\* lines 233-235: the branch of an entry that was there at the test
RegisterUpdate(t) ==
  /\ req[t].pc = "reg_update"
  /\ LET link_clean == link_clean_of(req[t].dup_check.new_links[req[t].link_index]) IN
     GLOBAL_LINKS' = [GLOBAL_LINKS EXCEPT ![link_clean] =
                        [@ EXCEPT !.upload_count = @ + 1,
                                  !.last_uploaded_by = USERS[req[t].user].username,
                                  !.last_uploaded_at = now]]
  /\ req' = [req EXCEPT ![t] = [@ EXCEPT !.pc = "upload_register",
                                         !.link_index = @ + 1]]
  /\ UNCHANGED <<SESSIONS, WORK_ASSIGNMENTS, now, tokens, started>>
  /\ UNCHANGED <<AUTH_TOKENS, users>>

\* lines 238-245: the branch of an entry that was not there at the test; the
\* assignment replaces whatever entry is there by now
RegisterCreate(t) ==
  /\ req[t].pc = "reg_create"
  /\ LET link_clean == link_clean_of(req[t].dup_check.new_links[req[t].link_index])
         username == USERS[req[t].user].username
     IN GLOBAL_LINKS' = put(GLOBAL_LINKS, link_clean,
                            [first_uploaded_by |-> username, first_uploaded_at |-> now,
                             upload_count |-> 1,
                             last_uploaded_by |-> username, last_uploaded_at |-> now])
  /\ req' = [req EXCEPT ![t] = [@ EXCEPT !.pc = "upload_register",
                                         !.link_index = @ + 1,
                                         !.registered_count = @ + 1]]
  /\ UNCHANGED <<SESSIONS, WORK_ASSIGNMENTS, now, tokens, started>>
  /\ UNCHANGED <<AUTH_TOKENS, users>>

\* lines 1371-1412, after the loop: create the session, answer
UploadFinish(t) ==
  /\ req[t].pc = "upload_register"
  /\ req[t].link_index > Len(req[t].dup_check.new_links)
  /\ LET r == req[t]
         session_token == generate_token(tokens)
     IN /\ tokens' = session_token
        /\ SESSIONS' = put(SESSIONS, session_token,
                           upload_session(USERS[r.user], r.df_clean, now))
        /\ req' = [req EXCEPT ![t] =
             [r EXCEPT !.pc = "done", !.created = <<session_token>>,
                       !.resp = [code |-> 200, error |-> "", names |-> <<>>]]]
  /\ UNCHANGED <<GLOBAL_LINKS, WORK_ASSIGNMENTS, now, started>>
  /\ UNCHANGED <<AUTH_TOKENS, users>>

(***************************************************************************)
(* admin_upload_and_assign                                                 *)
(***************************************************************************)
\* a share of the request: assignment['userId'], ['percentage'],
\* int(.get('startRange', 0)), int(.get('endRange', 0))
Share(user_id, percentage, start_range, end_range) ==
  [userId |-> user_id, percentage |-> percentage,
   startRange |-> start_range, endRange |-> end_range]

Repeat(x, n) == [i \in 1..n |-> x]

\* live_admin_sessions without the test of expires_at
admin_sessions_expired_or_not(username, S, tnow) ==
  {k \in DOMAIN S : /\ S[k].username = username
                    /\ S[k].assigned_by_admin}

\* live_admin_sessions without the test of assigned_by_admin
live_sessions_of_any_origin(username, S, tnow) ==
  {k \in DOMAIN S : /\ S[k].username = username
                    /\ tnow <= S[k].expires_at}

\* lines 680-684: the sessions that make the guard name a user
live_admin_sessions(username, S, tnow) ==
  {k \in DOMAIN S : /\ S[k].username = username
                    /\ S[k].assigned_by_admin
                    /\ tnow <= S[k].expires_at}

\* lines 671-684: users_with_assignments, a name for every such session of every share
RECURSIVE users_with_assignments(_, _, _, _)
users_with_assignments(assignments, i, S, tnow) ==
  IF i > Len(assignments) THEN <<>>
  ELSE LET user_id == assignments[i].userId IN
       (IF user_id \notin DOMAIN USERS THEN <<>>
        ELSE Repeat(USERS[user_id].name,
                    Cardinality(live_admin_sessions(USERS[user_id].username, S, tnow))))
       \o users_with_assignments(assignments, i + 1, S, tnow)

\* AdminGuard run after the classification and the registration of the batch
AdminGuard_registers_first(t, df, columns, assignment_type, assignments) ==
  /\ Worker(t)
  /\ started' = started + 1
  /\ LET names == users_with_assignments(assignments, 1, SESSIONS, now)
         r == [Idle EXCEPT !.op = "admin", !.user = "admin", !.df = df,
                           !.columns = columns,
                           !.assignment_type = assignment_type,
                           !.assignments = assignments]
     IN req' = [req EXCEPT ![t] =
          IF names # <<>>
          THEN [r EXCEPT !.pc = "done",
                         !.resp = [code |-> 400, error |-> "already_assigned",
                                   names |-> names]]
          ELSE [r EXCEPT !.pc = "admin_classify"]]
  /\ GLOBAL_LINKS' = register_links_globally(
                        check_global_duplicates(df, GLOBAL_LINKS).new_links,
                        "admin", now, GLOBAL_LINKS)
  /\ UNCHANGED <<SESSIONS, WORK_ASSIGNMENTS, now, tokens>>
  /\ UNCHANGED <<AUTH_TOKENS, users>>

\* lines 671-689: the guard; a request it rejects ends here. df is the link
\* column of the uploaded CSV; columns gives, for each of the columns Status,
\* Feedback and Verified By that the CSV has, the cell its rows hold there.
AdminGuard(t, df, columns, assignment_type, assignments) ==
  /\ Worker(t)
  /\ started' = started + 1
  /\ LET names == users_with_assignments(assignments, 1, SESSIONS, now)
         r == [Idle EXCEPT !.op = "admin", !.user = "admin", !.df = df,
                           !.columns = columns,
                           !.assignment_type = assignment_type,
                           !.assignments = assignments]
     IN req' = [req EXCEPT ![t] =
          IF names # <<>>
          THEN [r EXCEPT !.pc = "done",
                         !.resp = [code |-> 400, error |-> "already_assigned",
                                   names |-> names]]
          ELSE [r EXCEPT !.pc = "admin_classify"]]
  /\ UNCHANGED <<GLOBAL_LINKS, SESSIONS, WORK_ASSIGNMENTS, now, tokens>>
  /\ UNCHANGED <<AUTH_TOKENS, users>>

\* lines 715-728: classify the batch, keep the rows whose link is new
AdminClassify(t) ==
  /\ req[t].pc = "admin_classify"
  /\ LET dup_check == check_global_duplicates(req[t].df, GLOBAL_LINKS) IN
     req' = [req EXCEPT ![t] =
               [@ EXCEPT !.pc = "admin_register",
                         !.dup_check = dup_check,
                         !.total_duplicates = dup_check.within_file_count
                                              + dup_check.global_duplicate_count,
                         !.df_clean = isin(req[t].df, dup_check.new_links)]]
  /\ UNCHANGED <<GLOBAL_LINKS, SESSIONS, WORK_ASSIGNMENTS, now, tokens, started>>
  /\ UNCHANGED <<AUTH_TOKENS, users>>

\* df_clean.iloc[start_idx:end_idx]: 0-based, half-open, cut at the end of the frame
iloc(df, start_idx, end_idx) ==
  SubSeq(df, start_idx + 1, IF end_idx < Len(df) THEN end_idx ELSE Len(df))

\* lines 775-791 and 829-845: the session of one share
admin_session(user, user_df, tnow, assigned_range, percentage) ==
  [data |-> records(user_df, user.name),
   username |-> user.username,
   name |-> user.name,
   expires_at |-> expires(tnow),
   assigned_by_admin |-> TRUE,
   assigned_count |-> Len(user_df),
   assigned_range |-> assigned_range,
   assigned_percentage |-> percentage]

\* the state of the loop over the shares: the session store, the tokens generated,
\* user_sessions, the cursor of percentage mode, and the error that ended the loop
PlanStart(S, n) ==
  [S |-> S, tokens |-> n, user_sessions |-> <<>>, current_index |-> 0, error |-> ""]

\* f"{start_range}-{end_range}", lines 787 and 796
range_label(start_range, end_range) ==
  ToString(start_range) \o "-" \o ToString(end_range)

\* range_body that refuses a share with a row that a session created for an
\* earlier share of the request holds
range_body_refuses_overlap(st, a, df_clean, tnow) ==
  LET total_pdfs == Len(df_clean)
      start_range == a.startRange
      end_range == a.endRange
  IN IF st.error # "" THEN st
     ELSE IF a.userId \notin DOMAIN USERS THEN st
     ELSE IF start_range < 1 \/ end_range < 1 THEN [st EXCEPT !.error = "range_start"]
     ELSE IF start_range > total_pdfs \/ end_range > total_pdfs
          THEN [st EXCEPT !.error = "range_exceeds"]
     ELSE IF start_range > end_range THEN [st EXCEPT !.error = "range_order"]
     ELSE IF \E u \in DOMAIN st.user_sessions :
                \E s \in 1..total_pdfs, e \in 1..total_pdfs :
                   /\ st.S[st.user_sessions[u].session_token].assigned_range
                         = range_label(s, e)
                   /\ s <= end_range /\ start_range <= e
          THEN [st EXCEPT !.error = "range_order"]
     ELSE LET user_df == iloc(df_clean, start_range - 1, end_range)
              session_token == generate_token(st.tokens)
          IN [st EXCEPT
                !.S = put(@, session_token,
                          admin_session(USERS[a.userId], user_df, tnow,
                                        range_label(start_range, end_range), 0)),
                !.tokens = session_token,
                !.user_sessions = put(@, a.userId,
                          [session_token |-> session_token,
                           assigned_count |-> Len(user_df)])]

\* range_body with the slice taken from start_range as a 0-based position
\* (line 761 left out)
range_body_keeps_one_based(st, a, df_clean, tnow) ==
  LET total_pdfs == Len(df_clean)
      start_range == a.startRange
      end_range == a.endRange
  IN IF st.error # "" THEN st
     ELSE IF a.userId \notin DOMAIN USERS THEN st
     ELSE IF start_range < 1 \/ end_range < 1 THEN [st EXCEPT !.error = "range_start"]
     ELSE IF start_range > total_pdfs \/ end_range > total_pdfs
          THEN [st EXCEPT !.error = "range_exceeds"]
     ELSE IF start_range > end_range THEN [st EXCEPT !.error = "range_order"]
     ELSE LET user_df == iloc(df_clean, start_range, end_range)
              session_token == generate_token(st.tokens)
          IN [st EXCEPT
                !.S = put(@, session_token,
                          admin_session(USERS[a.userId], user_df, tnow,
                                        range_label(start_range, end_range), 0)),
                !.tokens = session_token,
                !.user_sessions = put(@, a.userId,
                          [session_token |-> session_token,
                           assigned_count |-> Len(user_df)])]

\* lines 740-799: one share in range mode
range_body(st, a, df_clean, tnow) ==
  LET total_pdfs == Len(df_clean)
      start_range == a.startRange
      end_range == a.endRange
  IN IF st.error # "" THEN st
     ELSE IF a.userId \notin DOMAIN USERS THEN st
     ELSE IF start_range < 1 \/ end_range < 1 THEN [st EXCEPT !.error = "range_start"]
     ELSE IF start_range > total_pdfs \/ end_range > total_pdfs
          THEN [st EXCEPT !.error = "range_exceeds"]
     ELSE IF start_range > end_range THEN [st EXCEPT !.error = "range_order"]
     ELSE LET user_df == iloc(df_clean, start_range - 1, end_range)
              session_token == generate_token(st.tokens)
          IN [st EXCEPT
                !.S = put(@, session_token,
                          admin_session(USERS[a.userId], user_df, tnow,
                                        range_label(start_range, end_range), 0)),
                !.tokens = session_token,
                !.user_sessions = put(@, a.userId,
                          [session_token |-> session_token,
                           assigned_count |-> Len(user_df)])]

\* percentage_body that leaves the cursor where it was (line 818 left out)
percentage_body_keeps_cursor(st, a, df_clean, tnow) ==
  LET total_pdfs == Len(df_clean) IN
  IF a.userId \notin DOMAIN USERS THEN st
  ELSE LET pdfs_count == (total_pdfs * a.percentage) \div 100
           start_idx == st.current_index
           end_idx == start_idx + pdfs_count
           user_df == iloc(df_clean, start_idx, end_idx)
           session_token == generate_token(st.tokens)
       IN [st EXCEPT
             !.S = put(@, session_token,
                       admin_session(USERS[a.userId], user_df, tnow,
                                     "", a.percentage)),
             !.tokens = session_token,
             !.user_sessions = put(@, a.userId,
                       [session_token |-> session_token,
                        assigned_count |-> Len(user_df)])]

\* percentage_body that makes no session for a share of no rows
percentage_body_skips_empty(st, a, df_clean, tnow) ==
  LET total_pdfs == Len(df_clean) IN
  IF a.userId \notin DOMAIN USERS THEN st
  ELSE LET pdfs_count == (total_pdfs * a.percentage) \div 100
           start_idx == st.current_index
           end_idx == start_idx + pdfs_count
           user_df == iloc(df_clean, start_idx, end_idx)
           session_token == generate_token(st.tokens)
       IN IF user_df = <<>> THEN st
          ELSE [st EXCEPT
             !.S = put(@, session_token,
                       admin_session(USERS[a.userId], user_df, tnow,
                                     "", a.percentage)),
             !.tokens = session_token,
             !.current_index = end_idx,
             !.user_sessions = put(@, a.userId,
                       [session_token |-> session_token,
                        assigned_count |-> Len(user_df)])]

\* percentage_body that moves the cursor past the slice of an unknown user
percentage_body_counts_unknown(st, a, df_clean, tnow) ==
  LET total_pdfs == Len(df_clean)
      pdfs_count == (total_pdfs * a.percentage) \div 100
      start_idx == st.current_index
      end_idx == start_idx + pdfs_count
  IN
  IF a.userId \notin DOMAIN USERS THEN [st EXCEPT !.current_index = end_idx]
  ELSE LET user_df == iloc(df_clean, start_idx, end_idx)
           session_token == generate_token(st.tokens)
       IN [st EXCEPT
             !.S = put(@, session_token,
                       admin_session(USERS[a.userId], user_df, tnow,
                                     "", a.percentage)),
             !.tokens = session_token,
             !.current_index = end_idx,
             !.user_sessions = put(@, a.userId,
                       [session_token |-> session_token,
                        assigned_count |-> Len(user_df)])]

\* lines 804-853: one share in percentage mode
percentage_body(st, a, df_clean, tnow) ==
  LET total_pdfs == Len(df_clean) IN
  IF a.userId \notin DOMAIN USERS THEN st
  ELSE LET pdfs_count == (total_pdfs * a.percentage) \div 100
           start_idx == st.current_index
           end_idx == start_idx + pdfs_count
           user_df == iloc(df_clean, start_idx, end_idx)
           session_token == generate_token(st.tokens)
       IN [st EXCEPT
             !.S = put(@, session_token,
                       admin_session(USERS[a.userId], user_df, tnow,
                                     "", a.percentage)),
             !.tokens = session_token,
             !.current_index = end_idx,
             !.user_sessions = put(@, a.userId,
                       [session_token |-> session_token,
                        assigned_count |-> Len(user_df)])]

\* lines 738-853: the loop over the shares
RECURSIVE plan_loop(_, _, _, _, _, _)
plan_loop(assignment_type, assignments, i, st, df_clean, tnow) ==
  IF i > Len(assignments) THEN st
  ELSE plan_loop(assignment_type, assignments, i + 1,
                 IF assignment_type = "range"
                 THEN range_body(st, assignments[i], df_clean, tnow)
                 ELSE percentage_body(st, assignments[i], df_clean, tnow),
                 df_clean, tnow)

\* the tokens of the sessions a request created: those generated during it
NewTokens(before, after) == [i \in 1..(after - before) |-> before + i]

\* lines 766-771 and 820-825: Status, Feedback and Verified By are filled in
\* only when the frame has no column of that name; a column the CSV came with
\* keeps its cells
with_columns(data, columns) ==
  [i \in 1..Len(data) |->
     [f \in DOMAIN data[i] |-> IF f \in DOMAIN columns THEN columns[f] ELSE data[i][f]]]

\* the session store after the loop: the rows of the sessions the loop created
\* carry the columns of the CSV
materialized(S, before, columns) ==
  [k \in DOMAIN S |->
     IF k \in DOMAIN before THEN S[k]
     ELSE [S[k] EXCEPT !.data = with_columns(@, columns)]]

\* lines 731-898: register the new links, run the planner, record the assignment
AdminRegisterPlan(t) ==
  /\ req[t].pc = "admin_register"
  /\ LET r == req[t]
         st == plan_loop(r.assignment_type, r.assignments, 1,
                         PlanStart(SESSIONS, tokens), r.df_clean, now)
     IN /\ GLOBAL_LINKS' = register_links_globally(r.dup_check.new_links, "admin",
                                                   now, GLOBAL_LINKS)
        /\ SESSIONS' = materialized(st.S, SESSIONS, r.columns)
        /\ tokens' = st.tokens
        /\ WORK_ASSIGNMENTS' =
             IF st.error # "" THEN WORK_ASSIGNMENTS
             ELSE Append(WORK_ASSIGNMENTS,
                         [assignment_type |-> r.assignment_type,
                          original_count |-> Len(r.df),
                          unique_count |-> Len(r.df_clean),
                          duplicates_count |-> r.total_duplicates,
                          assignments |-> st.user_sessions])
        /\ req' = [req EXCEPT ![t] =
             [r EXCEPT !.pc = "done",
                       !.created = NewTokens(tokens, st.tokens),
                       !.resp = IF st.error # ""
                                THEN [code |-> 400, error |-> st.error, names |-> <<>>]
                                ELSE [code |-> 200, error |-> "", names |-> <<>>]]]
  /\ UNCHANGED <<now, started>>
  /\ UNCHANGED <<AUTH_TOKENS, users>>

(***************************************************************************)
(* remove_session, lines 911-925                                           *)
(***************************************************************************)
remove_session(session_token) ==
  /\ session_token \in DOMAIN SESSIONS
  /\ SESSIONS' = [k \in DOMAIN SESSIONS \ {session_token} |-> SESSIONS[k]]
  /\ UNCHANGED <<GLOBAL_LINKS, WORK_ASSIGNMENTS, now, tokens, started, req>>
  /\ UNCHANGED <<AUTH_TOKENS, users>>

(***************************************************************************)
(* update_status, lines 1482-1524                                          *)
(***************************************************************************)
\* is_expired with one unit of grace after expires_at
is_expired_after_grace(session, tnow) == tnow > session.expires_at + 1

\* lines 1489-1491 (and 1429-1432): datetime.now() > expires_at
is_expired(session, tnow) == tnow > session.expires_at

\* first_match that falls back on the first row when no row matches
first_match_or_first(session_data, link) ==
  IF \E i \in 1..Len(session_data) : link_clean_of(session_data[i].link) = link
  THEN CHOOSE i \in 1..Len(session_data) :
         /\ link_clean_of(session_data[i].link) = link
         /\ \A j \in 1..(i - 1) : link_clean_of(session_data[j].link) # link
  ELSE IF session_data # <<>> THEN 1 ELSE 0

\* the last row whose trimmed link is the given one, 0 if none
last_match(session_data, link) ==
  IF \E i \in 1..Len(session_data) : link_clean_of(session_data[i].link) = link
  THEN CHOOSE i \in 1..Len(session_data) :
         /\ link_clean_of(session_data[i].link) = link
         /\ \A j \in (i + 1)..Len(session_data) : link_clean_of(session_data[j].link) # link
  ELSE 0

\* lines 1506-1512: the first row whose trimmed link is the given one, 0 if none
first_match(session_data, link) ==
  IF \E i \in 1..Len(session_data) : link_clean_of(session_data[i].link) = link
  THEN CHOOSE i \in 1..Len(session_data) :
         /\ link_clean_of(session_data[i].link) = link
         /\ \A j \in 1..(i - 1) : link_clean_of(session_data[j].link) # link
  ELSE 0

\* lines 1508-1510: the row after the update
updated_item(item, status, feedback) ==
  IF status = "Rejected"
  THEN [item EXCEPT !.Status = status, !.Feedback = feedback]
  ELSE [item EXCEPT !.Status = status]

\* the request with its header and its JSON body; link, status and feedback are
\* trimmed by the handler before use. saved tells whether the write of the
\* sessions file succeeds when the handler calls save_sessions (lines 1492, 1520):
\* save_sessions (lines 252-259) catches the exception of a failed write and
\* returns nothing, so the handler goes on the same way in both cases.
update_status(t, session_token, raw_link, raw_status, raw_feedback, saved) ==
  /\ Worker(t)
  /\ started' = started + 1
  /\ LET link == Strip(raw_link)
         status == Strip(raw_status)
         feedback == Strip(raw_feedback)
         r == [Idle EXCEPT !.pc = "done", !.op = "update_status",
                           !.session_token = session_token, !.link = link,
                           !.status = status, !.feedback = feedback]
         answer(code, error) ==
           [req EXCEPT ![t] = [r EXCEPT !.resp = [code |-> code, error |-> error,
                                                  names |-> <<>>]]]
     IN IF session_token \notin DOMAIN SESSIONS
        THEN /\ req' = answer(401, "invalid_session")
             /\ UNCHANGED SESSIONS
        ELSE IF is_expired(SESSIONS[session_token], now)
        THEN /\ SESSIONS' = [k \in DOMAIN SESSIONS \ {session_token} |-> SESSIONS[k]]
             /\ req' = [answer(401, "session_expired") EXCEPT
                          ![t].persist_failed = ~saved]
        ELSE IF link = "" \/ status = ""
        THEN /\ req' = answer(400, "link_and_status_required")
             /\ UNCHANGED SESSIONS
        ELSE LET i == first_match(SESSIONS[session_token].data, link) IN
             IF i = 0
             THEN /\ req' = answer(404, "link_not_found")
                  /\ UNCHANGED SESSIONS
             ELSE /\ SESSIONS' = [SESSIONS EXCEPT ![session_token].data[i] =
                                    updated_item(@, status, feedback)]
                  /\ req' = [answer(200, "") EXCEPT ![t].persist_failed = ~saved]
  /\ UNCHANGED <<GLOBAL_LINKS, WORK_ASSIGNMENTS, now, tokens>>
  /\ UNCHANGED <<AUTH_TOKENS, users>>

(***************************************************************************)
(* session_check, lines 1421-1443                                          *)
(***************************************************************************)
\* the answer is always 200; hasSession tells whether the token names a session
\* that has not expired. An expired session is deleted (lines 1432-1434).
session_check(t, session_token) ==
  /\ Worker(t)
  /\ started' = started + 1
  /\ LET r == [Idle EXCEPT !.pc = "done", !.op = "session_check",
                           !.session_token = session_token]
         answer(hasSession) ==
           [req EXCEPT ![t] = [r EXCEPT !.resp = [code |-> 200, error |-> "",
                                                  names |-> <<>>,
                                                  hasSession |-> hasSession]]]
     IN IF session_token \notin DOMAIN SESSIONS
        THEN /\ req' = answer(FALSE)
             /\ UNCHANGED SESSIONS
        ELSE IF is_expired(SESSIONS[session_token], now)
        THEN /\ SESSIONS' = [k \in DOMAIN SESSIONS \ {session_token} |-> SESSIONS[k]]
             /\ req' = answer(FALSE)
        ELSE /\ req' = answer(TRUE)
             /\ UNCHANGED SESSIONS
  /\ UNCHANGED <<GLOBAL_LINKS, WORK_ASSIGNMENTS, now, tokens>>
  /\ UNCHANGED <<AUTH_TOKENS, users>>

(***************************************************************************)
(* get_user_report, lines 1040-1112, called with a valid admin token       *)
(***************************************************************************)
\* the report is computed from SESSIONS[session_token] as it is in the store
\* (lines 1045-1049): the handler reads no expires_at and writes nothing.
get_user_report(t, session_token) ==
  /\ Worker(t)
  /\ started' = started + 1
  /\ LET r == [Idle EXCEPT !.pc = "done", !.op = "get_user_report",
                           !.session_token = session_token]
     IN IF session_token \notin DOMAIN SESSIONS
        THEN req' = [req EXCEPT ![t] =
                       [r EXCEPT !.resp = [code |-> 404, error |-> "session_not_found",
                                           names |-> <<>>]]]
        ELSE req' = [req EXCEPT ![t] =
                       [r EXCEPT !.resp = [code |-> 200, error |-> "",
                                           names |-> <<SESSIONS[session_token].name>>]]]
  /\ UNCHANGED <<GLOBAL_LINKS, SESSIONS, WORK_ASSIGNMENTS, now, tokens>>
  /\ UNCHANGED <<AUTH_TOKENS, users>>

(***************************************************************************)
(* update_status, session_check and get_data taken apart at their accesses *)
(* to SESSIONS, lines 1421-1524                                            *)
(***************************************************************************)
\* a subscript or a del on SESSIONS that finds the key everywhere
KeyError_never(S, session_token) == FALSE

\* SESSIONS[session_token] as a subscript or in a del raises KeyError when the
\* key is gone; every handler catches it in its `except Exception`
KeyError(S, session_token) == session_token \notin DOMAIN S

\* the dict the local variable session refers to: the one in the store while
\* the token is there, otherwise the one the handler got at its lookup (its
\* links and its expires_at never change)
session_of(t) ==
  IF req[t].session_token \in DOMAIN SESSIONS
  THEN SESSIONS[req[t].session_token]
  ELSE req[t].session

\* the request has ended with this response
ended(t, code, error) ==
  [req EXCEPT ![t].pc = "done",
              ![t].resp = [code |-> code, error |-> error, names |-> <<>>]]

\* lines 1482-1488: the token is looked up
UpdateLookup(t, session_token, raw_link, raw_status, raw_feedback) ==
  /\ Worker(t)
  /\ started' = started + 1
  /\ LET r == [Idle EXCEPT !.op = "update_status", !.session_token = session_token,
                           !.link = Strip(raw_link), !.status = Strip(raw_status),
                           !.feedback = Strip(raw_feedback)]
     IN req' = [req EXCEPT ![t] =
          IF session_token \notin DOMAIN SESSIONS
          THEN [r EXCEPT !.pc = "done",
                         !.resp = [code |-> 401, error |-> "invalid_session",
                                   names |-> <<>>]]
          ELSE [r EXCEPT !.pc = "update_body", !.session = SESSIONS[session_token]]]
  /\ UNCHANGED <<GLOBAL_LINKS, SESSIONS, WORK_ASSIGNMENTS, now, tokens>>
  /\ UNCHANGED <<AUTH_TOKENS, users>>

\* lines 1489-1514: the expiry, the validation, and the loop that sets the
\* Status of the first matching row in place
UpdateBody(t) ==
  /\ req[t].pc = "update_body"
  /\ LET k == req[t].session_token
         session == session_of(t)
         i == first_match(session.data, req[t].link)
     IN IF is_expired(session, now)
        THEN IF KeyError(SESSIONS, k)
             THEN /\ req' = ended(t, 500, "update_failed")
                  /\ UNCHANGED SESSIONS
             ELSE /\ SESSIONS' = [x \in DOMAIN SESSIONS \ {k} |-> SESSIONS[x]]
                  /\ req' = ended(t, 401, "session_expired")
        ELSE IF req[t].link = "" \/ req[t].status = ""
        THEN /\ req' = ended(t, 400, "link_and_status_required")
             /\ UNCHANGED SESSIONS
        ELSE IF i = 0
        THEN /\ req' = ended(t, 404, "link_not_found")
             /\ UNCHANGED SESSIONS
        ELSE /\ SESSIONS' = IF k \in DOMAIN SESSIONS
                            THEN [SESSIONS EXCEPT ![k].data[i] =
                                    updated_item(@, req[t].status, req[t].feedback)]
                            ELSE SESSIONS
             /\ req' = [req EXCEPT ![t].pc = "update_store"]
  /\ UNCHANGED <<GLOBAL_LINKS, WORK_ASSIGNMENTS, now, tokens, started>>
  /\ UNCHANGED <<AUTH_TOKENS, users>>

\* lines 1516-1524: SESSIONS[session_token]['data'] and ['last_accessed'] are
\* assigned, the sessions are saved, the request succeeds
UpdateStore(t) ==
  /\ req[t].pc = "update_store"
  /\ req' = IF KeyError(SESSIONS, req[t].session_token)
            THEN ended(t, 500, "update_failed")
            ELSE ended(t, 200, "")
  /\ UNCHANGED <<GLOBAL_LINKS, SESSIONS, WORK_ASSIGNMENTS, now, tokens, started>>
  /\ UNCHANGED <<AUTH_TOKENS, users>>

\* session_check, lines 1424-1429: the token is looked up
CheckLookup(t, session_token) ==
  /\ Worker(t)
  /\ started' = started + 1
  /\ LET r == [Idle EXCEPT !.op = "session_check", !.session_token = session_token]
     IN req' = [req EXCEPT ![t] =
          IF session_token \notin DOMAIN SESSIONS
          THEN [r EXCEPT !.pc = "done",
                         !.resp = [code |-> 200, error |-> "", names |-> <<>>,
                                   hasSession |-> FALSE]]
          ELSE [r EXCEPT !.pc = "check_body", !.session = SESSIONS[session_token]]]
  /\ UNCHANGED <<GLOBAL_LINKS, SESSIONS, WORK_ASSIGNMENTS, now, tokens>>
  /\ UNCHANGED <<AUTH_TOKENS, users>>

\* session_check, lines 1430-1443: an expired session is deleted, a live one
\* gets its last_accessed; a KeyError in either ends in the handler's except
\* clause, which answers hasSession false
CheckBody(t) ==
  /\ req[t].pc = "check_body"
  /\ LET k == req[t].session_token
         answer(hasSession) ==
           [req EXCEPT ![t].pc = "done",
                       ![t].resp = [code |-> 200, error |-> "", names |-> <<>>,
                                    hasSession |-> hasSession]]
     IN IF KeyError(SESSIONS, k)
        THEN /\ req' = answer(FALSE)
             /\ UNCHANGED SESSIONS
        ELSE IF is_expired(session_of(t), now)
        THEN /\ SESSIONS' = [x \in DOMAIN SESSIONS \ {k} |-> SESSIONS[x]]
             /\ req' = answer(FALSE)
        ELSE /\ req' = answer(TRUE)
             /\ UNCHANGED SESSIONS
  /\ UNCHANGED <<GLOBAL_LINKS, WORK_ASSIGNMENTS, now, tokens, started>>
  /\ UNCHANGED <<AUTH_TOKENS, users>>

\* get_data, lines 1449-1453: the token is looked up
DataLookup(t, session_token) ==
  /\ Worker(t)
  /\ started' = started + 1
  /\ LET r == [Idle EXCEPT !.op = "get_data", !.session_token = session_token]
     IN req' = [req EXCEPT ![t] =
          IF session_token \notin DOMAIN SESSIONS
          THEN [r EXCEPT !.pc = "done",
                         !.resp = [code |-> 401, error |-> "invalid_session",
                                   names |-> <<>>]]
          ELSE [r EXCEPT !.pc = "data_body", !.session = SESSIONS[session_token]]]
  /\ UNCHANGED <<GLOBAL_LINKS, SESSIONS, WORK_ASSIGNMENTS, now, tokens>>
  /\ UNCHANGED <<AUTH_TOKENS, users>>

\* get_data, lines 1454-1476: an expired session is deleted, a live one gets
\* its last_accessed and its rows are returned; a KeyError in either is
\* answered 500
DataBody(t) ==
  /\ req[t].pc = "data_body"
  /\ LET k == req[t].session_token
     IN IF KeyError(SESSIONS, k)
        THEN /\ req' = ended(t, 500, "get_data_failed")
             /\ UNCHANGED SESSIONS
        ELSE IF is_expired(session_of(t), now)
        THEN /\ SESSIONS' = [x \in DOMAIN SESSIONS \ {k} |-> SESSIONS[x]]
             /\ req' = ended(t, 401, "session_expired")
        ELSE /\ req' = ended(t, 200, "")
             /\ UNCHANGED SESSIONS
  /\ UNCHANGED <<GLOBAL_LINKS, WORK_ASSIGNMENTS, now, tokens, started>>
  /\ UNCHANGED <<AUTH_TOKENS, users>>

(***************************************************************************)
(* signup, login, require_auth and the handlers it protects, lines 60-79   *)
(* and 430-557; the requests to signup and login carry no X-Auth-Token     *)
(***************************************************************************)
\* len(password) of the passwords the requests carry
PyLen(s) == CASE s = "" -> 0
              [] s = "abc" -> 3
              [] s = "secret1" -> 7
              [] s = "secret2" -> 7
\* generate_password_hash and check_password_hash: the hash is of the password
\* and matches no other
generate_password_hash(password) == <<"hash", password>>
check_password_hash(pwhash, password) == pwhash = generate_password_hash(password)

\* lines 462-470 and 515-523: the data stored with an auth token
token_data(user_id, user, tnow) ==
  [user_id |-> user_id, username |-> user.username, email |-> user.email,
   name |-> user.name, expires_at |-> tnow + AUTH_TOKEN_TIMEOUT]

\* the errors of lines 447-451 for the users in the store: the loop answers
\* with the error of the first user, in the order of the dict, who has the
\* username or the email
signup_conflicts(U, username, email) ==
  {IF U[u].username = username THEN "username_exists" ELSE "email_exists" :
     u \in {x \in DOMAIN U : U[x].username = username \/ U[x].email = email}}

\* signup, lines 435-451: the fields are read and validated and the user store
\* is searched for the username and the email
SignupCheck(t, raw_username, raw_email, raw_password, raw_name) ==
  /\ Worker(t)
  /\ started' = started + 1
  /\ LET form == [username |-> Strip(raw_username), email |-> Strip(raw_email),
                  password |-> Strip(raw_password), name |-> Strip(raw_name)]
         r == [Idle EXCEPT !.op = "signup", !.form = form]
         answer(error) == [req EXCEPT ![t] =
                             [r EXCEPT !.pc = "done",
                                       !.resp = [code |-> 400, error |-> error,
                                                 names |-> <<>>]]]
         conflicts == signup_conflicts(users, form.username, form.email)
     IN IF form.username = "" \/ form.email = "" \/ form.password = "" \/ form.name = ""
        THEN req' = answer("fields_required")
        ELSE IF PyLen(form.password) < 6
        THEN req' = answer("password_short")
        ELSE IF conflicts # {}
        THEN \E error \in conflicts : req' = answer(error)
        ELSE req' = [req EXCEPT ![t] = [r EXCEPT !.pc = "signup_create"]]
  /\ UNCHANGED <<GLOBAL_LINKS, SESSIONS, WORK_ASSIGNMENTS, now, tokens, AUTH_TOKENS, users>>

\* signup, lines 453-488: the user is stored under a new uuid, an auth token is
\* issued, the users are saved
SignupCreate(t) ==
  /\ req[t].pc = "signup_create"
  /\ LET form == req[t].form
         auth_token == generate_token(tokens)
         \* uuid.uuid4(): an id no earlier call returned
         user_id == "id" \o ToString(auth_token)
         user == [username |-> form.username, email |-> form.email, name |-> form.name,
                  password_hash |-> generate_password_hash(form.password)]
     IN /\ users' = put(users, user_id, user)
        /\ AUTH_TOKENS' = put(AUTH_TOKENS, auth_token, token_data(user_id, user, now))
        /\ tokens' = auth_token
        /\ req' = [req EXCEPT ![t].pc = "done", ![t].auth_token = auth_token,
                              ![t].user = user_id,
                              ![t].resp = [code |-> 200, error |-> "", names |-> <<>>]]
  /\ UNCHANGED <<GLOBAL_LINKS, SESSIONS, WORK_ASSIGNMENTS, now, started>>

\* login, lines 491-537; the loop takes the first user, in the order of the
\* dict, who has the username or email and the password
login(t, raw_username_or_email, raw_password) ==
  /\ Worker(t)
  /\ started' = started + 1
  /\ LET username_or_email == Strip(raw_username_or_email)
         password == Strip(raw_password)
         r == [Idle EXCEPT !.op = "login"]
         found == {u \in DOMAIN users :
                     /\ users[u].username = username_or_email
                        \/ users[u].email = username_or_email
                     /\ check_password_hash(users[u].password_hash, password)}
         auth_token == generate_token(tokens)
     IN IF username_or_email = "" \/ password = ""
        THEN /\ req' = [req EXCEPT ![t] =
                         [r EXCEPT !.pc = "done",
                                   !.resp = [code |-> 400, error |-> "credentials_required",
                                             names |-> <<>>]]]
             /\ UNCHANGED <<AUTH_TOKENS, tokens>>
        ELSE IF found = {}
        THEN /\ req' = [req EXCEPT ![t] =
                         [r EXCEPT !.pc = "done",
                                   !.resp = [code |-> 401, error |-> "invalid_credentials",
                                             names |-> <<>>]]]
             /\ UNCHANGED <<AUTH_TOKENS, tokens>>
        ELSE \E user_id \in found :
               /\ AUTH_TOKENS' = put(AUTH_TOKENS, auth_token,
                                     token_data(user_id, users[user_id], now))
               /\ tokens' = auth_token
               /\ req' = [req EXCEPT ![t] =
                           [r EXCEPT !.pc = "done", !.auth_token = auth_token,
                                     !.user = user_id,
                                     !.resp = [code |-> 200, error |-> "", names |-> <<>>]]]
  /\ UNCHANGED <<GLOBAL_LINKS, SESSIONS, WORK_ASSIGNMENTS, now, users>>

\* token_expired that finds no token expired
token_expired_never(data, tnow) == FALSE

\* line 72: datetime.now() > expires_at
token_expired(data, tnow) == tnow > data.expires_at

\* require_auth, lines 64-67, on the route of handler op: a request with no
\* token (0) or with a token that is not in the store is answered 401
RequireAuthTest(t, auth_token, op) ==
  /\ Worker(t)
  /\ started' = started + 1
  /\ LET r == [Idle EXCEPT !.op = op, !.auth_token = auth_token]
     IN req' = [req EXCEPT ![t] =
                  IF auth_token = 0 \/ auth_token \notin DOMAIN AUTH_TOKENS
                  THEN [r EXCEPT !.pc = "done",
                                 !.resp = [code |-> 401, error |-> "AUTH_REQUIRED",
                                           names |-> <<>>]]
                  ELSE [r EXCEPT !.pc = "auth_read"]]
  /\ UNCHANGED <<GLOBAL_LINKS, SESSIONS, WORK_ASSIGNMENTS, now, tokens, AUTH_TOKENS, users>>

\* require_auth, lines 69-72 and 77-78: the data of the token is read and its
\* expiry compared with the clock; the handler is entered with request.user
\* set; the KeyError of a token deleted since line 66 is answered 500 by Flask
RequireAuthRead(t) ==
  /\ req[t].pc = "auth_read"
  /\ LET auth_token == req[t].auth_token
     IN req' = IF KeyError(AUTH_TOKENS, auth_token)
               THEN ended(t, 500, "internal_server_error")
               ELSE IF token_expired(AUTH_TOKENS[auth_token], now)
               THEN [req EXCEPT ![t].pc = "auth_expire"]
               ELSE [req EXCEPT ![t].pc = req[t].op,
                                ![t].user = AUTH_TOKENS[auth_token].user_id,
                                ![t].session = AUTH_TOKENS[auth_token]]
  /\ UNCHANGED <<GLOBAL_LINKS, SESSIONS, WORK_ASSIGNMENTS, now, tokens, started,
                 AUTH_TOKENS, users>>

\* require_auth, lines 73-74: the expired token is deleted and the request
\* answered 401; the KeyError of a token deleted since is answered 500 by Flask
RequireAuthExpire(t) ==
  /\ req[t].pc = "auth_expire"
  /\ IF KeyError(AUTH_TOKENS, req[t].auth_token)
     THEN /\ req' = ended(t, 500, "internal_server_error")
          /\ UNCHANGED AUTH_TOKENS
     ELSE /\ AUTH_TOKENS' = [k \in DOMAIN AUTH_TOKENS \ {req[t].auth_token} |->
                               AUTH_TOKENS[k]]
          /\ req' = ended(t, 401, "TOKEN_EXPIRED")
  /\ UNCHANGED <<GLOBAL_LINKS, SESSIONS, WORK_ASSIGNMENTS, now, tokens, started, users>>

\* logout, line 548: is the token in the store
LogoutTest(t) ==
  /\ req[t].pc = "logout"
  /\ req' = IF req[t].auth_token \in DOMAIN AUTH_TOKENS
            THEN [req EXCEPT ![t].pc = "logout_delete"]
            ELSE ended(t, 200, "")
  /\ UNCHANGED <<GLOBAL_LINKS, SESSIONS, WORK_ASSIGNMENTS, now, tokens, started,
                 AUTH_TOKENS, users>>

\* logout, lines 549-552: the token is deleted; a KeyError is answered 500
LogoutDelete(t) ==
  /\ req[t].pc = "logout_delete"
  /\ IF KeyError(AUTH_TOKENS, req[t].auth_token)
     THEN /\ req' = ended(t, 500, "logout_failed")
          /\ UNCHANGED AUTH_TOKENS
     ELSE /\ AUTH_TOKENS' = [k \in DOMAIN AUTH_TOKENS \ {req[t].auth_token} |->
                               AUTH_TOKENS[k]]
          /\ req' = ended(t, 200, "")
  /\ UNCHANGED <<GLOBAL_LINKS, SESSIONS, WORK_ASSIGNMENTS, now, tokens, started, users>>

\* check_assigned_work, lines 1211-1250: does the user of the token own a
\* session that has not expired
check_assigned_work(t) ==
  /\ req[t].pc = "check_assigned_work"
  /\ LET username == req[t].session.username
         user_sessions == {k \in DOMAIN SESSIONS :
                             /\ SESSIONS[k].username = username
                             /\ now <= SESSIONS[k].expires_at}
     IN req' = [req EXCEPT ![t].pc = "done",
                           ![t].resp = [code |-> 200, error |-> "", names |-> <<>>,
                                        hasAssignedWork |-> user_sessions # {}]]
  /\ UNCHANGED <<GLOBAL_LINKS, SESSIONS, WORK_ASSIGNMENTS, now, tokens, started,
                 AUTH_TOKENS, users>>

\* the clock advances
Tick ==
  /\ now < MaxTime
  /\ now' = now + 1
  /\ UNCHANGED <<GLOBAL_LINKS, SESSIONS, WORK_ASSIGNMENTS, tokens, started, req>>
  /\ UNCHANGED <<AUTH_TOKENS, users>>

(***************************************************************************)
(* Specifications                                                          *)
(***************************************************************************)
Entry(by, at, n, lby, lat) ==
  [first_uploaded_by |-> by, first_uploaded_at |-> at, upload_count |-> n,
   last_uploaded_by |-> lby, last_uploaded_at |-> lat]
\* entries a registry can hold at time 0
Entries == {Entry("alice", 0, 1, "alice", 0), Entry("admin", 0, 2, "bob", 0)}
Registries == UNION {[K -> Entries] : K \in SUBSET CleanLinks}

\* The whole system after a start with no persisted files: requests of every kind
\* on two threads, interleaved; the thread's steps are the handler's.
Init ==
  /\ GLOBAL_LINKS = <<>>
  /\ SESSIONS = <<>>
  /\ WORK_ASSIGNMENTS = <<>>
  /\ now = 0
  /\ tokens = 0
  /\ started = 0
  /\ req = [t \in Threads |-> Idle]
  /\ AUTH_TOKENS = <<>>
  /\ users = USERS

\* the batches and the share lists of the whole-system specification: a repeated
\* link and a single one; one reviewer, two reviewers, an unknown user
SysBatches == {<<"a", "a">>, <<"b">>}
SysUserBatches == {<<"a", "a">>}
SysUploaders == {"u1"}
SysAssignments == {<<Share("u1", 100, 0, 0)>>,
                   <<Share("u1", 50, 0, 0), Share("u2", 50, 0, 0)>>,
                   <<Share("ux", 50, 0, 0), Share("u2", 50, 0, 0)>>}

Next ==
  \/ /\ started < MaxRequests
     /\ \E t \in Threads, u \in SysUploaders, df \in SysUserBatches :
          UploadClassify(t, u, df)
  \/ \E t \in Threads : UploadRegister(t)
  \/ /\ started < MaxRequests
     /\ \E t \in Threads, df \in SysBatches, assignments \in SysAssignments :
          AdminGuard(t, df, <<>>, "percentage", assignments)
  \/ \E t \in Threads : AdminClassify(t)
  \/ \E t \in Threads : AdminRegisterPlan(t)
  \/ \E k \in DOMAIN SESSIONS : remove_session(k)
  \/ Tick

Spec == Init /\ [][Next]_vars

\* Concurrent uploads, by users and by the admin, against the registry: a repeated
\* link, a padded link beside a new one, a blank cell; no clock.
UpBatches == {<<"a", "a">>, <<" a ", "b">>, <<"b", " ">>}
UpAssignments == {<<Share("u1", 100, 0, 0)>>, <<Share("u2", 100, 0, 0)>>}

NextUploads ==
  \/ /\ started < MaxRequests
     /\ \E t \in Threads, u \in DOMAIN USERS, df \in UpBatches :
          UploadClassify(t, u, df)
  \/ \E t \in Threads : UploadRegister(t)
  \/ /\ started < MaxRequests
     /\ \E t \in Threads, df \in UpBatches, assignments \in UpAssignments :
          AdminGuard(t, df, <<>>, "percentage", assignments)
  \/ \E t \in Threads : AdminClassify(t)
  \/ \E t \in Threads : AdminRegisterPlan(t)

SpecUploads == Init /\ [][NextUploads]_vars

\* One admin request in range mode, for every batch and every list of shares,
\* against a registry that is empty or holds one of the links.
PlanCells == {"a", " a ", "b"}
PlanRegistries == {<<>>, [l \in {"b"} |-> Entry("alice", 0, 1, "alice", 0)]}
Percentages == {30, 50, 100}
\* longest batch of the range-mode specification
MaxRangeBatch == 2
RangeShares == {Share(u, 0, s, e) : u \in UserIds,
                                    s \in 0..(MaxRangeBatch + 1),
                                    e \in 0..(MaxRangeBatch + 1)}
PercentageShares == {Share(u, p, 0, 0) : u \in UserIds, p \in Percentages}
RangeBatches == SeqsUpTo(PlanCells, MaxRangeBatch)
\* a range-mode request carries one share or two
RangeLists == [{1} -> RangeShares] \cup [{1, 2} -> RangeShares]
PercentageBatches == SeqsUpTo(PlanCells, MaxPlanBatch)
PercentageLists == NonEmptySeqsUpTo(PercentageShares, MaxShares)

InitPlan ==
  /\ GLOBAL_LINKS \in PlanRegistries
  /\ SESSIONS = <<>>
  /\ WORK_ASSIGNMENTS = <<>>
  /\ now = 0
  /\ tokens = 0
  /\ started = 0
  /\ req = [t \in Threads |-> Idle]
  /\ AUTH_TOKENS = <<>>
  /\ users = USERS

NextRange ==
  \/ /\ started = 0
     /\ \E df \in RangeBatches, assignments \in RangeLists :
          AdminGuard(1, df, <<>>, "range", assignments)
  \/ AdminClassify(1)
  \/ AdminRegisterPlan(1)

SpecRange == InitPlan /\ [][NextRange]_vars

\* One admin request in percentage mode, for every batch and every list of shares.
NextPercentage ==
  \/ /\ started = 0
     /\ \E df \in PercentageBatches, assignments \in PercentageLists :
          AdminGuard(1, df, <<>>, "percentage", assignments)
  \/ AdminClassify(1)
  \/ AdminRegisterPlan(1)

SpecPercentage == InitPlan /\ [][NextPercentage]_vars

\* One admin request in either mode with a CSV that has more columns than the
\* link: none, a Status column, a Status column with empty cells and a Feedback
\* column, or a Verified By column.
ColumnSets == {<<>>,
               [Status |-> "Accepted"],
               [Status |-> NaN, Feedback |-> "seen"],
               [Verified_By |-> "Carol"]}
ColumnBatches == {<<"a">>, <<"a", "b">>, <<"a", "a", "b">>}
ColumnRangeLists == [{1} -> RangeShares]
ColumnPercentageLists == [{1} -> PercentageShares]

NextColumns ==
  \/ /\ started = 0
     /\ \E df \in ColumnBatches, columns \in ColumnSets, assignments \in ColumnRangeLists :
          AdminGuard(1, df, columns, "range", assignments)
  \/ /\ started = 0
     /\ \E df \in ColumnBatches, columns \in ColumnSets,
           assignments \in ColumnPercentageLists :
          AdminGuard(1, df, columns, "percentage", assignments)
  \/ AdminClassify(1)
  \/ AdminRegisterPlan(1)

SpecColumns == InitPlan /\ [][NextColumns]_vars

\* Status updates on the sessions of two uploads, and the clock.
StatusBatches == {<<"a", "b">>, <<"a", "a", "b">>}
StatusLinks == {"a", " a ", "b", "nan", " "}
Statuses == {"Accepted", "Rejected", "Pending", ""}
Feedbacks == {"", "bad scan"}

\* alice has uploaded a batch and bob has uploaded the batch [b, c] after her
InitStatus ==
  \E df \in StatusBatches :
     LET new_links == check_global_duplicates(df, <<>>).new_links
         GL == register_links_globally(new_links, "alice", 0, <<>>)
         df_bob == <<"b", "c">>
         new_links_bob == check_global_duplicates(df_bob, GL).new_links
     IN
     /\ GLOBAL_LINKS = register_links_globally(new_links_bob, "bob", 0, GL)
     /\ SESSIONS = put([k \in {1} |-> upload_session(USERS["u1"], isin(df, new_links), 0)],
                       2, upload_session(USERS["u2"], isin(df_bob, new_links_bob), 0))
     /\ WORK_ASSIGNMENTS = <<>>
     /\ now = 0
     /\ tokens = 2
     /\ started = 0
     /\ req = [t \in Threads |-> Idle]
     /\ AUTH_TOKENS = <<>>
     /\ users = USERS

NextStatus ==
  \/ /\ started < MaxUpdates
     /\ \E session_token \in 1..3, link \in StatusLinks, status \in Statuses,
           feedback \in Feedbacks, saved \in BOOLEAN :
          update_status(1, session_token, link, status, feedback, saved)
  \/ Tick

SpecStatus == InitStatus /\ [][NextStatus]_vars

\* Requests that read a session, by the reviewer and by the admin, and the clock.
NextAccess ==
  \/ /\ started < MaxAccesses
     /\ \E session_token \in 1..3 : session_check(1, session_token)
  \/ /\ started < MaxAccesses
     /\ \E session_token \in 1..3 : get_user_report(1, session_token)
  \/ /\ started < MaxAccesses
     /\ \E session_token \in 1..3, status \in {"Accepted", ""}, saved \in BOOLEAN :
          update_status(1, session_token, "b", status, "", saved)
  \/ Tick

SpecAccess == InitStatus /\ [][NextAccess]_vars

\* Reviewer requests on two threads, taken apart at their accesses to the
\* session store, while the admin removes sessions and the clock runs.
FlightLinks == {"a", "nan"}
FlightStatuses == {"Accepted", ""}

NextFlight ==
  \/ /\ started < MaxFlights
     /\ \E t \in Threads, session_token \in 1..3, link \in FlightLinks,
           status \in FlightStatuses :
          UpdateLookup(t, session_token, link, status, "")
  \/ \E t \in Threads : UpdateBody(t)
  \/ \E t \in Threads : UpdateStore(t)
  \/ /\ started < MaxFlights
     /\ \E t \in Threads, session_token \in 1..3 : CheckLookup(t, session_token)
  \/ \E t \in Threads : CheckBody(t)
  \/ /\ started < MaxFlights
     /\ \E t \in Threads, session_token \in 1..3 : DataLookup(t, session_token)
  \/ \E t \in Threads : DataBody(t)
  \/ \E k \in DOMAIN SESSIONS : remove_session(k)
  \/ Tick

SpecFlight == InitStatus /\ [][NextFlight]_vars

\* Logins and requests on protected routes on two threads, and the clock.
Logins == {"alice", "bob@x", "eve"}
Passwords == {"secret1", "secret2"}
\* the tokens a request can present: none (0) and the ones issued so far, the
\* session tokens among them
PresentedTokens == 0..tokens
ProtectedRoutes == {"logout", "check_assigned_work"}

NextAuth ==
  \/ /\ started < MaxAuthRequests
     /\ \E t \in Threads, username \in Logins, password \in Passwords :
          login(t, username, password)
  \/ /\ started < MaxAuthRequests
     /\ \E t \in Threads, auth_token \in PresentedTokens, op \in ProtectedRoutes :
          RequireAuthTest(t, auth_token, op)
  \/ \E t \in Threads : RequireAuthRead(t)
  \/ \E t \in Threads : RequireAuthExpire(t)
  \/ \E t \in Threads : LogoutTest(t)
  \/ \E t \in Threads : LogoutDelete(t)
  \/ \E t \in Threads : check_assigned_work(t)
  \/ Tick

SpecAuth == InitStatus /\ [][NextAuth]_vars

\* Signups on two threads, the search of the user store and the creation of the
\* user taken apart.
SignupUsernames == {"alice", "carol", " carol "}
SignupEmails == {"bob@x", "carol@x"}
SignupPasswords == {"abc", "secret1"}
SignupNames == {"Carol", " "}

NextSignup ==
  \/ /\ started < MaxSignups
     /\ \E t \in Threads, username \in SignupUsernames, email \in SignupEmails,
           password \in SignupPasswords, name \in SignupNames :
          SignupCheck(t, username, email, password, name)
  \/ \E t \in Threads : SignupCreate(t)

SpecSignup == Init /\ [][NextSignup]_vars

\* check_global_duplicates and one upload against every registry the program can
\* hold, for every batch.
Batches == SeqsUpTo(Cells, MaxBatch)

InitClassify ==
  /\ GLOBAL_LINKS \in Registries
  /\ SESSIONS = <<>>
  /\ WORK_ASSIGNMENTS = <<>>
  /\ now = 0
  /\ tokens = 0
  /\ started = 0
  /\ req = [t \in Threads |-> Idle]
  /\ AUTH_TOKENS = <<>>
  /\ users = USERS

NextClassify ==
  \/ /\ started = 0
     /\ \E df \in Batches : UploadClassify(1, "u1", df)
  \/ UploadRegister(1)

SpecClassify == InitClassify /\ [][NextClassify]_vars

\* Calls of register_links_globally, one after the other, with any list of links
\* and either actor.
RegCells == {"a", " a ", "b", " "}
RegLists == SeqsUpTo(RegCells, MaxRegBatch)
Actors == {"alice", "admin"}

\* the registry is empty or holds a link registered the day before
InitRegister ==
  /\ GLOBAL_LINKS \in PlanRegistries
  /\ SESSIONS = <<>>
  /\ WORK_ASSIGNMENTS = <<>>
  /\ now = 1
  /\ tokens = 0
  /\ started = 0
  /\ req = [t \in Threads |-> Idle]
  /\ AUTH_TOKENS = <<>>
  /\ users = USERS

NextRegister ==
  /\ started < MaxCalls
  /\ \E links \in RegLists, username \in Actors : RegisterCall(1, links, username)

SpecRegister == InitRegister /\ [][NextRegister]_vars

\* Uploads by two users at the same time, the registration loop taken apart.
RaceBatches == {<<"a">>, <<"a", "b">>, <<"b", "a">>}

NextRace ==
  \/ /\ started < MaxRequests
     /\ \E t \in Threads, u \in DOMAIN USERS, df \in RaceBatches :
          UploadClassify(t, u, df)
  \/ \E t \in Threads : RegisterTest(t)
  \/ \E t \in Threads : RegisterUpdate(t)
  \/ \E t \in Threads : RegisterCreate(t)
  \/ \E t \in Threads : UploadFinish(t)

SpecRace == Init /\ [][NextRace]_vars

(***************************************************************************)
(* Claims about the classification (SpecClassify)                          *)
(***************************************************************************)
\* thread t holds the report of a batch it classified and has not yet registered
Classified(t) == req[t].pc \in {"upload_register", "admin_register"}

NonBlank(df) == SelectSeq(df, LAMBDA cell : link_clean_of(cell) # "")
DistinctLinks(df) == {link_clean_of(df[i]) : i \in 1..Len(df)} \ {""}
ReportSum(r) == Len(r.within_file_duplicates) + Len(r.global_duplicates) + Len(r.new_links)

\* C1 as stated: the three sequences of the report together have as many entries
\* as the batch has distinct non-empty trimmed links.
C1_SumIsDistinctCount ==
  \A t \in Threads : Classified(t) =>
     ReportSum(req[t].dup_check) = Cardinality(DistinctLinks(req[t].df))

\* C1 amended: the three sequences of the report together have as many entries as
\* the batch has cells whose trimmed string form is non-empty, repeats counted
\* (every repeat is one entry of within_file_duplicates).
C1_SumIsNonBlankCount ==
  \A t \in Threads : Classified(t) =>
     ReportSum(req[t].dup_check) = Len(NonBlank(req[t].df))

\* a batch with a repeated link and a blank cell has been classified
C1_Witness ==
  \E t \in Threads :
     /\ Classified(t)
     /\ req[t].dup_check.within_file_count >= 1
     /\ \E i \in 1..Len(req[t].df) : link_clean_of(req[t].df[i]) = ""

\* the position of the first cell of the batch whose trimmed form is l
FirstIndex(df, l) ==
  CHOOSE i \in 1..Len(df) :
     /\ link_clean_of(df[i]) = l
     /\ \A k \in 1..(i - 1) : link_clean_of(df[k]) # l

\* s lists exactly the links of S, each once, in the order of their first cell in df
ListsInFirstOrder(s, S, df) ==
  /\ Range(s) = S
  /\ \A i, j \in 1..Len(s) : i < j => s[i] # s[j] /\ FirstIndex(df, s[i]) < FirstIndex(df, s[j])

\* C2: new_links lists exactly the non-empty trimmed links of the batch that the
\* registry lacks, each once, in first-occurrence order; global_duplicates lists
\* exactly those the registry holds, each once, in first-occurrence order.
C2_NewAndGlobalInFirstOrder ==
  \A t \in Threads : Classified(t) =>
     LET r == req[t].dup_check
         df == req[t].df
         g == [i \in 1..Len(r.global_duplicates) |-> r.global_duplicates[i].link]
     IN /\ ListsInFirstOrder(r.new_links, DistinctLinks(df) \ DOMAIN GLOBAL_LINKS, df)
        /\ ListsInFirstOrder(g, DistinctLinks(df) \cap DOMAIN GLOBAL_LINKS, df)

\* a batch with two new links, the first of them repeated, has been classified
C2_Witness ==
  \E t \in Threads :
     /\ Classified(t)
     /\ Len(req[t].dup_check.new_links) = 2
     /\ req[t].dup_check.within_file_count = 1
     /\ link_clean_of(req[t].df[3]) = req[t].dup_check.new_links[1]

\* thread t takes the step that classifies its batch
Classifies(t) ==
  /\ req[t].pc \in {"idle", "done", "admin_classify"}
  /\ req'[t].pc \in {"upload_register", "admin_register"}

\* C17: the classification of a batch leaves the registry as it was: the same
\* keys, the same counts, the same provenance.
C17_ClassificationLeavesRegistry ==
  [][\A t \in Threads : Classifies(t) =>
       /\ DOMAIN GLOBAL_LINKS' = DOMAIN GLOBAL_LINKS
       /\ \A l \in DOMAIN GLOBAL_LINKS : GLOBAL_LINKS'[l] = GLOBAL_LINKS[l]]_vars

\* a batch with a link the registry holds and a link it lacks has been classified
C17_Witness ==
  \E t \in Threads :
     /\ Classified(t)
     /\ req[t].dup_check.global_duplicate_count >= 1
     /\ req[t].dup_check.new_count >= 1
     /\ Range(req[t].dup_check.new_links) \cap DOMAIN GLOBAL_LINKS = {}

\* C18: the total of duplicates removed that an upload reports is the length of
\* the batch less the number of new links, blank links included.
C18_DuplicatesRemovedIsLengthLessNew ==
  \A t \in Threads : Classified(t) =>
     req[t].total_duplicates = Len(req[t].df) - Len(req[t].dup_check.new_links)

(***************************************************************************)
(* Claims about the rows of an upload (SpecClassify)                       *)
(***************************************************************************)
\* the trimmed links of the rows of a session, in order
RowLinks(data) == [i \in 1..Len(data) |-> link_clean_of(data[i].link)]
NoRepeat(s) == \A i, j \in 1..Len(s) : i # j => s[i] # s[j]

\* C3: the rows the sessions are built from are the new links, one row per entry
\* in the same order, and no session holds the same link in two rows.
C3_RowsAreNewLinks ==
  /\ \A t \in Threads : Classified(t) =>
        [i \in 1..Len(req[t].df_clean) |-> link_clean_of(req[t].df_clean[i])]
           = req[t].dup_check.new_links
  /\ \A k \in DOMAIN SESSIONS : NoRepeat(RowLinks(SESSIONS[k].data))

(***************************************************************************)
(* Claims about uploads that run at the same time (SpecUploads)            *)
(***************************************************************************)
\* thread t takes the step that registers the new links of its batch
Registers(t) == req[t].pc \in {"upload_register", "admin_register"} /\ req'[t].pc = "done"
\* thread t has answered an upload that got as far as the registration
Uploaded(t) == req[t].pc = "done" /\ req[t].resp.error # "already_assigned"

\* C4 as stated: once an upload has registered, the same batch has no new link, and
\* every link that was new to the upload has upload_count = 1 after it.
C4_ReuploadNothingNewCountOne ==
  [][\A t \in Threads :
       /\ Registers(t) =>
            \A l \in Range(req[t].dup_check.new_links) :
               l \in DOMAIN GLOBAL_LINKS' /\ GLOBAL_LINKS'[l].upload_count = 1
       /\ Uploaded(t)' =>
            check_global_duplicates(req'[t].df, GLOBAL_LINKS').new_links = <<>>]_vars

\* C4 amended: once an upload has registered, the same batch has no new link; every
\* link that was new to the upload has an entry with upload_count >= 1 after it,
\* and exactly 1 when no other request registered that link between the upload's
\* classification and its registration.
C4_ReuploadNothingNew ==
  [][\A t \in Threads :
       /\ Registers(t) =>
            \A l \in Range(req[t].dup_check.new_links) :
               /\ l \in DOMAIN GLOBAL_LINKS'
               /\ GLOBAL_LINKS'[l].upload_count >= 1
               /\ l \notin DOMAIN GLOBAL_LINKS => GLOBAL_LINKS'[l].upload_count = 1
       /\ Uploaded(t)' =>
            check_global_duplicates(req'[t].df, GLOBAL_LINKS').new_links = <<>>]_vars

\* an upload with new links has been answered and the identical batch, uploaded
\* again, has been classified with no new link
C4_Witness ==
  \E t, t2 \in Threads :
     /\ t # t2
     /\ Uploaded(t)
     /\ req[t].dup_check.new_links # <<>>
     /\ Classified(t2)
     /\ req[t2].df = req[t].df
     /\ req[t2].dup_check.new_links = <<>>
     /\ req[t2].dup_check.global_duplicate_count = Len(req[t].dup_check.new_links)

\* the links of the batch that the classification found in the registry
SeenBefore(r) == {r.global_duplicates[i].link : i \in 1..Len(r.global_duplicates)}

\* C19: an upload whose batch holds a link that was in the registry adds 1 to that
\* link's upload_count and sets its last_uploaded_by to the uploader.
C19_LaterSightIncrements ==
  [][\A t \in Threads : Registers(t) =>
       \A l \in SeenBefore(req[t].dup_check) :
          /\ GLOBAL_LINKS'[l].upload_count = GLOBAL_LINKS[l].upload_count + 1
          /\ GLOBAL_LINKS'[l].last_uploaded_by =
                IF req[t].op = "admin" THEN "admin" ELSE USERS[req[t].user].username]_vars

\* C20: no link is in the rows of two sessions that different uploads created.
C20_BatchesDistributeDifferentLinks ==
  \A k1, k2 \in DOMAIN SESSIONS :
     (k1 # k2 /\ ~\E t \in Threads : {k1, k2} \subseteq Range(req[t].created)) =>
        Range(RowLinks(SESSIONS[k1].data)) \cap Range(RowLinks(SESSIONS[k2].data)) = {}

(***************************************************************************)
(* Claims about the guard (Spec)                                           *)
(***************************************************************************)
\* thread t takes the step of the guard
Guards(t) == Worker(t) /\ started' # started /\ req'[t].op = "admin"
\* the guard rejected the request of thread t
Rejected(t) == req[t].pc = "done" /\ req[t].resp.error = "already_assigned"

\* the known users a list of shares targets
Targeted(assignments) ==
  {assignments[i].userId : i \in 1..Len(assignments)} \cap DOMAIN USERS
\* the targeted users who own an admin-assigned session that has not expired
Conflicting(assignments) ==
  {u \in Targeted(assignments) :
     \E k \in DOMAIN SESSIONS :
        /\ SESSIONS[k].username = USERS[u].username
        /\ SESSIONS[k].assigned_by_admin
        /\ ~(now > SESSIONS[k].expires_at)}

\* C6: the guard rejects a request if and only if a targeted known user owns an
\* admin-assigned session that has not expired, and the error names exactly those
\* users.
C6_GuardRejectsIffLiveAdminSession ==
  [][\A t \in Threads : Guards(t) =>
       /\ Rejected(t)' <=> Conflicting(req'[t].assignments) # {}
       /\ Rejected(t)' =>
            Range(req'[t].resp.names)
               = {USERS[u].name : u \in Conflicting(req'[t].assignments)}]_vars

\* a request for two reviewers has been rejected naming one of them only
C6_Witness ==
  \E t \in Threads :
     /\ Rejected(t)
     /\ Cardinality(Targeted(req[t].assignments)) = 2
     /\ Cardinality(Range(req[t].resp.names)) = 1

\* C7: a request the guard rejects leaves the registry, the sessions and the
\* work-assignment records as they were.
C7_RejectionHasNoSideEffect ==
  [][\A t \in Threads : Guards(t) /\ Rejected(t)' =>
       UNCHANGED <<GLOBAL_LINKS, SESSIONS, WORK_ASSIGNMENTS>>]_vars

\* a request whose batch holds a link the registry lacks has been rejected
C7_Witness ==
  \E t \in Threads :
     /\ Rejected(t)
     /\ DistinctLinks(req[t].df) \ DOMAIN GLOBAL_LINKS # {}

(***************************************************************************)
(* Claims about the status update (SpecStatus)                             *)
(***************************************************************************)
\* thread t takes the step of an update-status request that succeeds
Updates(t) == started' # started /\ req'[t].op = "update_status" /\ req'[t].resp.code = 200

\* C5: after a successful update to Rejected the row's Feedback is the feedback
\* supplied with the update; after a successful update to any other status it is
\* the empty string.
C5_FeedbackFollowsStatus ==
  [][\A t \in Threads : Updates(t) =>
       LET k == req'[t].session_token
           i == first_match(SESSIONS[k].data, req'[t].link)
       IN SESSIONS'[k].data[i].Feedback =
            IF req'[t].status = "Rejected" THEN req'[t].feedback ELSE ""]_vars

\* thread t takes the step of an update-status request
UpdateStep(t) == started' # started /\ req'[t].op = "update_status"
\* the session of the token is in the store and has not expired
LiveSession(k) == k \in DOMAIN SESSIONS /\ ~(now > SESSIONS[k].expires_at)

\* C14: an update-status request on a live session fails with the validation
\* error when its trimmed link or status is empty, and with the not-found error
\* when they are not and no row of the session has the link; a request that
\* fails in either way leaves the session store as it was.
C14_FailedUpdateChangesNothing ==
  [][\A t \in Threads : UpdateStep(t) =>
       LET k == req'[t].session_token
           link == req'[t].link
           status == req'[t].status
           resp == req'[t].resp
       IN /\ LiveSession(k) /\ (link = "" \/ status = "") =>
               resp.code = 400 /\ resp.error = "link_and_status_required"
          /\ (/\ LiveSession(k) /\ link # "" /\ status # ""
              /\ \A i \in 1..Len(SESSIONS[k].data) :
                    link_clean_of(SESSIONS[k].data[i].link) # link) =>
               resp.code = 404 /\ resp.error = "link_not_found"
          /\ resp.code \in {400, 404} => SESSIONS' = SESSIONS]_vars

\* a request for a link the session lacks has been answered not-found after an
\* earlier request had set the status of a row
C14_Witness ==
  \E t \in Threads :
     /\ req[t].op = "update_status"
     /\ req[t].resp.code = 404
     /\ req[t].status # ""
     /\ \E i \in 1..Len(SESSIONS[req[t].session_token].data) :
          SESSIONS[req[t].session_token].data[i].Status # ""

\* C15: no update-status request is answered with success when the write of the
\* sessions file it made failed.
C15_NoSuccessWhenPersistFailed ==
  \A t \in Threads :
     req[t].op = "update_status" /\ req[t].resp.code = 200 => ~req[t].persist_failed

(***************************************************************************)
(* Claims about the planner in range mode (SpecRange)                      *)
(***************************************************************************)
\* the shares of known users, in input order
KnownShares(assignments) == SelectSeq(assignments, LAMBDA a : a.userId \in DOMAIN USERS)
\* thread t has answered an admin request that passed the guard
Planned(t) == req[t].pc = "done" /\ req[t].op = "admin" /\ ~Rejected(t)
RangeErrors == {"range_start", "range_exceeds", "range_order"}

\* the share breaks a bound of range mode, total being the number of new links
BadRange(a, total) ==
  \/ a.startRange < 1
  \/ a.endRange < 1
  \/ a.startRange > total
  \/ a.endRange > total
  \/ a.startRange > a.endRange

\* C8: a range-mode request with a share that breaks a bound (total = number of
\* new links) fails with a validation error.
C8_BadRangeFails ==
  \A t \in Threads :
     Planned(t) /\ req[t].assignment_type = "range" =>
        ((\E i \in 1..Len(req[t].assignments) :
             BadRange(req[t].assignments[i], Len(req[t].dup_check.new_links)))
         => req[t].resp.code = 400 /\ req[t].resp.error \in RangeErrors)

\* C9: after a range-mode request that failed validation, no session the request
\* created is in the session store.
C9_FailedRangeLeavesNoSession ==
  \A t \in Threads :
     Planned(t) /\ req[t].assignment_type = "range" /\ req[t].resp.error \in RangeErrors =>
        \A k \in DOMAIN SESSIONS : k \notin Range(req[t].created)

\* C16: the row ranges of the sessions a successful range-mode request created
\* lie within [1, number of new links] and no two of them share a row.
C16_RangesWithinAndDisjoint ==
  \A t \in Threads :
     Planned(t) /\ req[t].assignment_type = "range" /\ req[t].resp.code = 200 =>
        LET share(i) == KnownShares(req[t].assignments)[i]
            n == Len(req[t].created)
        IN /\ \A i \in 1..n :
                /\ SESSIONS[req[t].created[i]].assigned_range
                      = range_label(share(i).startRange, share(i).endRange)
                /\ 1 <= share(i).startRange
                /\ share(i).endRange <= Len(req[t].dup_check.new_links)
           /\ \A i, j \in 1..n :
                i # j => \/ share(i).endRange < share(j).startRange
                         \/ share(j).endRange < share(i).startRange

(***************************************************************************)
(* Claims about the planner in percentage mode (SpecPercentage)            *)
(***************************************************************************)
\* floor(total * percentage / 100)
ShareCount(a, total) == (total * a.percentage) \div 100
\* the cursor before share i: the counts of the shares before it
RECURSIVE CursorBefore(_, _, _)
CursorBefore(shares, i, total) ==
  IF i <= 1 THEN 0
  ELSE CursorBefore(shares, i - 1, total) + ShareCount(shares[i - 1], total)
\* the 0-based positions of [from, from + count) that the rows have
Positions(from, count, total) == {p \in from..(from + count - 1) : p < total}

\* C10: in percentage mode the reviewer of share i gets exactly the rows at the
\* 0-based positions [cursor, cursor + floor(total * percentage_i / 100)), the cursor
\* starting at 0 and advancing by that count; the rows from the final cursor on are
\* in no session.
C10_PercentageSlices ==
  \A t \in Threads :
     Planned(t) /\ req[t].assignment_type = "percentage" =>
        LET shares == KnownShares(req[t].assignments)
            rows == req[t].df_clean
            total == Len(rows)
            final == CursorBefore(shares, Len(shares) + 1, total)
        IN /\ req[t].resp.code = 200
           /\ Len(req[t].created) = Len(shares)
           /\ \A i \in 1..Len(shares) :
                LET session == SESSIONS[req[t].created[i]]
                    cursor == CursorBefore(shares, i, total)
                    P == Positions(cursor, ShareCount(shares[i], total), total)
                IN /\ session.username = USERS[shares[i].userId].username
                   /\ Len(session.data) = Cardinality(P)
                   /\ \A n \in 1..Len(session.data) :
                        cursor + n - 1 \in P /\ session.data[n].link = rows[cursor + n]
           /\ LET assigned == UNION {Positions(CursorBefore(shares, i, total),
                                               ShareCount(shares[i], total), total)
                                       : i \in 1..Len(shares)}
              IN \A p \in 0..(total - 1) : p >= final => p \notin assigned

\* three rows shared 50/50: one row each and the third row in no session
C10_Witness ==
  \E t \in Threads :
     /\ Planned(t)
     /\ req[t].assignment_type = "percentage"
     /\ Len(req[t].df_clean) = 3
     /\ Len(req[t].created) = 2
     /\ \A i \in 1..2 : req[t].assignments[i].percentage = 50
     /\ SESSIONS[req[t].created[1]].data = records(<<req[t].df_clean[1]>>, SESSIONS[req[t].created[1]].name)
     /\ SESSIONS[req[t].created[2]].data = records(<<req[t].df_clean[2]>>, SESSIONS[req[t].created[2]].name)

(***************************************************************************)
(* Claims about register_links_globally (SpecRegister)                     *)
(***************************************************************************)
\* thread t takes the step of a call of register_links_globally
Calls(t) == started' # started /\ req'[t].op = "register"
\* how many cells of the list have the trimmed form l
Occurrences(links, l) == Cardinality({i \in 1..Len(links) : link_clean_of(links[i]) = l})

\* C11: a call creates an entry for every non-empty trimmed link the registry lacks,
\* with upload_count 1 and first_* and last_* the actor and the current time, and
\* on every further pass over a link it adds 1 to upload_count and sets last_* and
\* leaves first_* as they are (so a link met n times ends n higher, or at n when it
\* was created); links not in the list keep their entries; the value returned is
\* the number of entries created.
C11_RegisterCreatesOrIncrements ==
  [][\A t \in Threads : Calls(t) =>
       LET links == req'[t].df
           actor == req'[t].user
           GL == GLOBAL_LINKS
           GL2 == GLOBAL_LINKS'
       IN /\ DOMAIN GL2 = DOMAIN GL \cup DistinctLinks(links)
          /\ \A l \in DOMAIN GL2 :
               LET n == Occurrences(links, l) IN
               IF n = 0 THEN GL2[l] = GL[l]
               ELSE /\ GL2[l].last_uploaded_by = actor
                    /\ GL2[l].last_uploaded_at = now
                    /\ IF l \in DOMAIN GL
                       THEN /\ GL2[l].upload_count = GL[l].upload_count + n
                            /\ GL2[l].first_uploaded_by = GL[l].first_uploaded_by
                            /\ GL2[l].first_uploaded_at = GL[l].first_uploaded_at
                       ELSE /\ GL2[l].upload_count = n
                            /\ GL2[l].first_uploaded_by = actor
                            /\ GL2[l].first_uploaded_at = now
          /\ req'[t].registered_count = Cardinality(DistinctLinks(links) \ DOMAIN GL)]_vars

\* a call has created one entry and updated another that an earlier actor had
\* created at an earlier time
C11_Witness ==
  \E t \in Threads :
     /\ req[t].op = "register"
     /\ req[t].registered_count = 1
     /\ \E l \in DistinctLinks(req[t].df) :
          /\ GLOBAL_LINKS[l].first_uploaded_at < GLOBAL_LINKS[l].last_uploaded_at
          /\ GLOBAL_LINKS[l].first_uploaded_by # GLOBAL_LINKS[l].last_uploaded_by
          /\ GLOBAL_LINKS[l].last_uploaded_by = req[t].user

\* a list check_global_duplicates can return as new_links: trimmed, non-empty
\* links, none twice
IsNewLinks(links) ==
  /\ NoRepeat(links)
  /\ \A i \in 1..Len(links) : links[i] # "" /\ links[i] = link_clean_of(links[i])

\* C12: when a new_links list is registered a second time by the same actor, right
\* after the first time, every link of it has upload_count exactly 1 higher than
\* after the first call, and the second call creates no entry (it returns 0 and
\* the registry has the same keys).
C12_SecondRegistrationAddsOne ==
  [][\A t \in Threads :
       (/\ Calls(t)
        /\ req[t].op = "register"
        /\ req'[t].df = req[t].df
        /\ req'[t].user = req[t].user
        /\ IsNewLinks(req[t].df))
       => /\ \A l \in Range(req[t].df) :
               GLOBAL_LINKS'[l].upload_count = GLOBAL_LINKS[l].upload_count + 1
          /\ req'[t].registered_count = 0
          /\ DOMAIN GLOBAL_LINKS' = DOMAIN GLOBAL_LINKS]_vars

\* two links that the actor created in this behaviour stand at upload_count 2
\* after the actor's second call, which created nothing
C12_Witness ==
  \E t \in Threads :
     /\ req[t].op = "register"
     /\ started = 2
     /\ IsNewLinks(req[t].df)
     /\ Len(req[t].df) = 2
     /\ req[t].registered_count = 0
     /\ \A l \in Range(req[t].df) :
          /\ GLOBAL_LINKS[l].upload_count = 2
          /\ GLOBAL_LINKS[l].first_uploaded_at = now
          /\ GLOBAL_LINKS[l].first_uploaded_by = req[t].user
          /\ GLOBAL_LINKS[l].last_uploaded_by = req[t].user

(***************************************************************************)
(* Claims about registrations that run at the same time (SpecRace)         *)
(***************************************************************************)
\* thread t has answered a user's upload
UploadDone(t) == req[t].pc = "done" /\ req[t].op = "upload"

\* C13: when two uploads that ran at the same time both classified a link as new
\* and both registered it, the registry holds one entry for it with upload_count
\* 2, first_* of the one and last_* of the other.
C13_SecondCreateBecomesIncrement ==
  \A t1, t2 \in Threads :
     t1 # t2 /\ UploadDone(t1) /\ UploadDone(t2) =>
        \A l \in Range(req[t1].dup_check.new_links) \cap Range(req[t2].dup_check.new_links) :
           /\ l \in DOMAIN GLOBAL_LINKS
           /\ GLOBAL_LINKS[l].upload_count = 2
           /\ GLOBAL_LINKS[l].first_uploaded_by \in
                 {USERS[req[t1].user].username, USERS[req[t2].user].username}
           /\ req[t1].user # req[t2].user =>
                 GLOBAL_LINKS[l].first_uploaded_by # GLOBAL_LINKS[l].last_uploaded_by

(***************************************************************************)
(* More claims about the planner in percentage mode (SpecPercentage)       *)
(***************************************************************************)
\* the sessions a request created, in the order of their creation
CreatedSessions(t) == [i \in 1..Len(req[t].created) |-> SESSIONS[req[t].created[i]]]

\* C21: a percentage-mode request with shares of unknown users succeeds, and the
\* sessions it creates are those the request would create with these shares left
\* out: one for every other share, with the same owner and the same rows.
C21_UnknownShareIsSkipped ==
  \A t \in Threads :
     Planned(t) /\ req[t].assignment_type = "percentage" =>
        LET known == KnownShares(req[t].assignments)
            without == plan_loop("percentage", known, 1, PlanStart(<<>>, 0),
                                 req[t].df_clean, now)
        IN /\ req[t].resp.code = 200
           /\ Len(req[t].created) = Len(known)
           /\ CreatedSessions(t) = [i \in 1..Len(known) |-> without.S[i]]

\* a request whose first share names an unknown user has given the reviewer of
\* its second share the first row
C21_Witness ==
  \E t \in Threads :
     /\ Planned(t)
     /\ req[t].assignment_type = "percentage"
     /\ Len(req[t].assignments) = 2
     /\ req[t].assignments[1].userId \notin DOMAIN USERS
     /\ req[t].assignments[2].userId \in DOMAIN USERS
     /\ Len(req[t].created) = 1
     /\ Len(req[t].df_clean) >= 2
     /\ SESSIONS[req[t].created[1]].data # <<>>
     /\ SESSIONS[req[t].created[1]].data[1].link = req[t].df_clean[1]

(***************************************************************************)
(* More claims about the planner in range mode (SpecRange)                 *)
(***************************************************************************)
\* the decimal numeral of a position
Numeral(n) ==
  CASE n = 1 -> "1" [] n = 2 -> "2" [] n = 3 -> "3" [] n = 4 -> "4" [] n = 5 -> "5"
    [] n = 6 -> "6" [] n = 7 -> "7" [] n = 8 -> "8" [] n = 9 -> "9"

\* C22: a range-mode request that succeeds gives the reviewer of every share of a
\* known user the rows at the 1-based positions start_range..end_range, in
\* order, end_range - start_range + 1 of them, and the session records
\* assigned_range "start-end" and that number as assigned_count.
C22_RangeSlice ==
  \A t \in Threads :
     Planned(t) /\ req[t].assignment_type = "range" /\ req[t].resp.code = 200 =>
        LET known == KnownShares(req[t].assignments) IN
        /\ Len(req[t].created) = Len(known)
        /\ \A i \in 1..Len(known) :
             LET session == SESSIONS[req[t].created[i]]
                 s == known[i].startRange
                 e == known[i].endRange
             IN /\ session.username = USERS[known[i].userId].username
                /\ Len(session.data) = e - s + 1
                /\ \A n \in 1..Len(session.data) :
                     session.data[n].link = req[t].df_clean[s + n - 1]
                /\ session.assigned_count = e - s + 1
                /\ session.assigned_range = Numeral(s) \o "-" \o Numeral(e)

\* a share 2..2 of a batch of two rows has given its reviewer the second row only
C22_Witness ==
  \E t \in Threads :
     /\ Planned(t)
     /\ req[t].assignment_type = "range"
     /\ req[t].resp.code = 200
     /\ Len(req[t].df_clean) = 2
     /\ req[t].df_clean[1] # req[t].df_clean[2]
     /\ Len(req[t].created) = 1
     /\ SESSIONS[req[t].created[1]].assigned_range = "2-2"
     /\ SESSIONS[req[t].created[1]].assigned_count = 1
     /\ SESSIONS[req[t].created[1]].data[1].link = req[t].df_clean[2]

\* the 1-based positions two shares have in common
Common(a, b) == {p \in a.startRange..a.endRange : b.startRange <= p /\ p <= b.endRange}
\* the share keeps the bounds of range mode on the rows it slices
GoodRange(a, total) ==
  /\ 1 <= a.startRange
  /\ a.startRange <= a.endRange
  /\ a.endRange <= total

\* C23: a range-mode request whose shares of known users all keep the bounds
\* succeeds also when two of the ranges overlap, and every row in the overlap is
\* in the session of the one share and in the session of the other.
C23_OverlapAccepted ==
  \A t \in Threads :
     Planned(t) /\ req[t].assignment_type = "range" =>
        LET known == KnownShares(req[t].assignments)
            rows == req[t].df_clean
        IN (\A i \in 1..Len(known) : GoodRange(known[i], Len(rows))) =>
             /\ req[t].resp.code = 200
             /\ Len(req[t].created) = Len(known)
             /\ \A i, j \in 1..Len(known) : i # j =>
                  \A p \in Common(known[i], known[j]) :
                     /\ SESSIONS[req[t].created[i]].data[p - known[i].startRange + 1].link
                          = rows[p]
                     /\ SESSIONS[req[t].created[j]].data[p - known[j].startRange + 1].link
                          = rows[p]

\* shares 1..2 and 2..2 of two reviewers have been accepted and the second row is
\* in both sessions
C23_Witness ==
  \E t \in Threads :
     /\ Planned(t)
     /\ req[t].assignment_type = "range"
     /\ req[t].resp.code = 200
     /\ Len(req[t].created) = 2
     /\ req[t].assignments[1].userId # req[t].assignments[2].userId
     /\ SESSIONS[req[t].created[1]].assigned_range = "1-2"
     /\ SESSIONS[req[t].created[2]].assigned_range = "2-2"
     /\ SESSIONS[req[t].created[1]].data[2].link = SESSIONS[req[t].created[2]].data[1].link
     /\ SESSIONS[req[t].created[1]].username # SESSIONS[req[t].created[2]].username

\* thread t takes the step that ends a range-mode request with a validation error
FailsRange(t) ==
  /\ req[t].pc = "admin_register"
  /\ req'[t].pc = "done"
  /\ req'[t].resp.error \in RangeErrors

\* C24: a range-mode request that fails validation leaves the registry exactly as
\* it was before the request.
C24_FailedRangeLeavesRegistry ==
  [][\A t \in Threads : FailsRange(t) => GLOBAL_LINKS' = GLOBAL_LINKS]_vars


(***************************************************************************)
(* More claims about registrations that run at the same time (SpecRace)    *)
(***************************************************************************)
\* C25: the registry is append-only: in every step every registered link stays
\* registered, its first_uploaded_by and first_uploaded_at stay as they are, and
\* its upload_count is at least 1 and does not decrease.
C25_RegistryAppendOnly ==
  [][\A l \in DOMAIN GLOBAL_LINKS :
       /\ l \in DOMAIN GLOBAL_LINKS'
       /\ GLOBAL_LINKS'[l].first_uploaded_by = GLOBAL_LINKS[l].first_uploaded_by
       /\ GLOBAL_LINKS'[l].first_uploaded_at = GLOBAL_LINKS[l].first_uploaded_at
       /\ GLOBAL_LINKS[l].upload_count >= 1
       /\ GLOBAL_LINKS'[l].upload_count >= GLOBAL_LINKS[l].upload_count]_vars


(***************************************************************************)
(* More claims about the status update (SpecStatus)                        *)
(***************************************************************************)
\* C26: the Status of every row of every session is "", "Accepted" or
\* "Rejected", whatever status the update-status requests carry.
C26_StatusInVocabulary ==
  \A k \in DOMAIN SESSIONS : \A i \in 1..Len(SESSIONS[k].data) :
     SESSIONS[k].data[i].Status \in {"", "Accepted", "Rejected"}

\* the rows of a list whose trimmed link is the given one
Matches(session_data, link) ==
  {i \in 1..Len(session_data) : link_clean_of(session_data[i].link) = link}

\* C27: a successful update-status changes the row with the least index among
\* the rows of the addressed session whose trimmed link is the given link, and
\* no other row; the link and Verified By of that row, the expires_at and the
\* owner of the session, and every other session stay as they were.
C27_UpdateChangesOneRow ==
  [][\A t \in Threads : Updates(t) =>
       LET k == req'[t].session_token
           rows == Matches(SESSIONS[k].data, req'[t].link)
       IN /\ rows # {}
          /\ DOMAIN SESSIONS' = DOMAIN SESSIONS
          /\ \A o \in DOMAIN SESSIONS \ {k} : SESSIONS'[o] = SESSIONS[o]
          /\ SESSIONS'[k].expires_at = SESSIONS[k].expires_at
          /\ SESSIONS'[k].username = SESSIONS[k].username
          /\ SESSIONS'[k].name = SESSIONS[k].name
          /\ Len(SESSIONS'[k].data) = Len(SESSIONS[k].data)
          /\ \A i \in 1..Len(SESSIONS[k].data) :
               LET old == SESSIONS[k].data[i]
                   new == SESSIONS'[k].data[i]
               IN /\ new.link = old.link
                  /\ new.Verified_By = old.Verified_By
                  /\ (\E j \in rows : j < i) \/ i \notin rows => new = old
                  /\ (i \in rows /\ \A j \in rows : i <= j) =>
                        new.Status = req'[t].status]_vars

\* an update of a link that two rows of alice's session hold has changed the
\* first of them and not the second, bob's session being in the store
C27_Witness ==
  /\ 2 \in DOMAIN SESSIONS
  /\ \E t \in Threads :
       /\ req[t].op = "update_status" /\ req[t].resp.code = 200
       /\ req[t].session_token = 1
       /\ 1 \in DOMAIN SESSIONS
       /\ LET rows == Matches(SESSIONS[1].data, req[t].link) IN
          \E i, j \in rows :
             /\ i < j
             /\ SESSIONS[1].data[i].Status = req[t].status
             /\ SESSIONS[1].data[j].Status = ""


(***************************************************************************)
(* Claims about the expiry of sessions (SpecAccess)                        *)
(***************************************************************************)
\* thread t takes the step of a request that reads the session of its token
AccessStep(t) ==
  /\ started' # started
  /\ req'[t].op \in {"session_check", "update_status", "get_user_report"}

\* C28: after a request that reads a session whose expires_at has passed, the
\* session is not in the session store.
C28_ExpiredEvictedOnAccess ==
  [][\A t \in Threads : AccessStep(t) =>
       LET k == req'[t].session_token IN
       (k \in DOMAIN SESSIONS /\ now > SESSIONS[k].expires_at) =>
          k \notin DOMAIN SESSIONS']_vars


(***************************************************************************)
(* Claims about the rows of new sessions (SpecColumns)                     *)
(***************************************************************************)
\* the rows of the sessions created before the i-th one of a request
RECURSIVE RowsBefore(_, _)
RowsBefore(t, i) ==
  IF i <= 1 THEN 0
  ELSE RowsBefore(t, i - 1) + Len(SESSIONS[req[t].created[i - 1]].data)

\* C30: in both modes every row of every session an assignment request created
\* has Status "" and Feedback "", the display name of the assignee as Verified
\* By, and as link the entry of new_links at the row's place in the assignment:
\* start + n - 1 for row n of a range share, the number of rows handed out
\* before plus n for row n of a percentage share.
C30_RowsStartBlank ==
  \A t \in Threads :
     Planned(t) /\ req[t].resp.code = 200 =>
        LET known == KnownShares(req[t].assignments)
            new_links == req[t].dup_check.new_links
        IN \A i \in 1..Len(req[t].created) :
             LET session == SESSIONS[req[t].created[i]]
                 offset == IF req[t].assignment_type = "range"
                           THEN known[i].startRange - 1
                           ELSE RowsBefore(t, i)
             IN \A n \in 1..Len(session.data) :
                  LET row == session.data[n] IN
                  /\ row.Status = ""
                  /\ row.Feedback = ""
                  /\ row.Verified_By = USERS[known[i].userId].name
                  /\ offset + n <= Len(new_links)
                  /\ row.link = new_links[offset + n]

\* the same for the batches that have a link column only and no link twice:
\* the part of the statement the planner keeps
PlainBatchRowsStartBlank ==
  \A t \in Threads :
     (/\ Planned(t) /\ req[t].resp.code = 200
      /\ req[t].columns = <<>>
      /\ Len(req[t].df_clean) = Len(req[t].dup_check.new_links)) =>
        LET known == KnownShares(req[t].assignments)
            new_links == req[t].dup_check.new_links
        IN \A i \in 1..Len(req[t].created) :
             LET session == SESSIONS[req[t].created[i]]
                 offset == IF req[t].assignment_type = "range"
                           THEN known[i].startRange - 1
                           ELSE RowsBefore(t, i)
             IN \A n \in 1..Len(session.data) :
                  LET row == session.data[n] IN
                  /\ row.Status = ""
                  /\ row.Feedback = ""
                  /\ row.Verified_By = USERS[known[i].userId].name
                  /\ offset + n <= Len(new_links)
                  /\ row.link = new_links[offset + n]

(***************************************************************************)
(* More claims about the classification (SpecClassify)                     *)
(***************************************************************************)
\* the trimmed links of the cells of df that repeat an earlier cell, in batch order
LaterOccurrences(df) ==
  LET later == SelectSeq([i \in 1..Len(df) |-> i],
                         LAMBDA i : /\ link_clean_of(df[i]) # ""
                                    /\ \E j \in 1..(i - 1) :
                                          link_clean_of(df[j]) = link_clean_of(df[i]))
  IN [n \in 1..Len(later) |-> link_clean_of(df[later[n]])]
\* how many entries of the sequence s are x
CountOf(s, x) == Cardinality({i \in 1..Len(s) : s[i] = x})

\* C31: for every non-empty trimmed link that k cells of the batch hold,
\* within_file_duplicates has k - 1 entries, one per cell after the first, the
\* entries in batch order; the link of the first cell is once in
\* global_duplicates or once in new_links, and not in both.
C31_WithinFileIsLaterOccurrences ==
  \A t \in Threads : Classified(t) =>
     LET r == req[t].dup_check
         df == req[t].df
         w == [i \in 1..Len(r.within_file_duplicates) |-> r.within_file_duplicates[i].link]
         g == [i \in 1..Len(r.global_duplicates) |-> r.global_duplicates[i].link]
         cells == [i \in 1..Len(df) |-> link_clean_of(df[i])]
     IN /\ w = LaterOccurrences(df)
        /\ \A l \in DistinctLinks(df) :
             /\ CountOf(w, l) = CountOf(cells, l) - 1
             /\ CountOf(g, l) + CountOf(r.new_links, l) = 1

\* a batch with the same link in three cells, one of them padded, has been
\* classified
C31_Witness ==
  \E t \in Threads :
     /\ Classified(t)
     /\ Len(req[t].df) = 3
     /\ req[t].dup_check.within_file_count = 2
     /\ \E i \in 1..3 : req[t].df[i] = " a "

\* the links of the three lists of a report
ReportLinks(r) ==
  {r.within_file_duplicates[i].link : i \in 1..Len(r.within_file_duplicates)}
    \cup {r.global_duplicates[i].link : i \in 1..Len(r.global_duplicates)}
    \cup Range(r.new_links)

\* C32: a cell that is empty after trimming is in none of the three lists of
\* the report and is no key of the registry, before and after the registration
\* of the batch; the report of a batch is the report of the batch without its
\* blank cells.
C32_BlankCellsAreDropped ==
  /\ "" \notin DOMAIN GLOBAL_LINKS
  /\ \A t \in Threads :
       /\ req[t].op = "upload" => "" \notin ReportLinks(req[t].dup_check)
       /\ Classified(t) =>
            req[t].dup_check = check_global_duplicates(NonBlank(req[t].df), GLOBAL_LINKS)

\* an upload with a blank cell between two cells of the same link has been
\* classified and registered
C32_Witness ==
  \E t \in Threads :
     /\ req[t].pc = "done"
     /\ req[t].op = "upload"
     /\ Len(req[t].df) = 3
     /\ link_clean_of(req[t].df[2]) = ""
     /\ req[t].dup_check.within_file_count = 1
     /\ Range(req[t].dup_check.new_links) \subseteq DOMAIN GLOBAL_LINKS
     /\ req[t].dup_check.new_links # <<>>

(***************************************************************************)
(* Claims about the sessions a user holds (SpecPercentage, Spec)           *)
(***************************************************************************)
\* C33: every user owns at most one unexpired session with assigned_by_admin
\* = true.
C33_OneLiveAdminSessionPerUser ==
  \A u \in DOMAIN USERS :
     Cardinality(live_admin_sessions(USERS[u].username, SESSIONS, now)) <= 1

(***************************************************************************)
(* Claims about updates of expired sessions (SpecStatus)                   *)
(***************************************************************************)
\* C34: an update-status request for a session whose expires_at is earlier
\* than the current time is answered with the session-expired error; it takes
\* the session out of the store and leaves every other session, with the
\* Status and Feedback of its rows, as it was.
C34_ExpiredSessionIsNotUpdated ==
  [][\A t \in Threads : UpdateStep(t) =>
       LET k == req'[t].session_token IN
       (k \in DOMAIN SESSIONS /\ SESSIONS[k].expires_at < now) =>
          /\ req'[t].resp.code = 401
          /\ req'[t].resp.error = "session_expired"
          /\ DOMAIN SESSIONS' = DOMAIN SESSIONS \ {k}
          /\ \A o \in DOMAIN SESSIONS' : SESSIONS'[o] = SESSIONS[o]]_vars

\* an update of bob's session has been answered session-expired and the
\* session is gone, alice's session with a row updated earlier being in the store
C34_Witness ==
  \E t \in Threads :
     /\ req[t].op = "update_status"
     /\ req[t].resp.error = "session_expired"
     /\ req[t].session_token = 2
     /\ req[t].link # "" /\ req[t].status # ""
     /\ DOMAIN SESSIONS = {1}
     /\ \E i \in 1..Len(SESSIONS[1].data) : SESSIONS[1].data[i].Status # ""

(***************************************************************************)
(* Claims about requests in flight when a session is deleted (SpecFlight)  *)
(***************************************************************************)
\* the positions of a request between its lookup of the session and its end
InFlight == {"update_body", "update_store", "check_body", "data_body"}
\* a response that is an error or says that there is no session
Negative(resp) ==
  \/ resp.code # 200
  \/ "hasSession" \in DOMAIN resp /\ ~resp.hasSession

LiveAdmin(u) ==
  {k \in DOMAIN SESSIONS : /\ SESSIONS[k].username = USERS[u].username
                           /\ SESSIONS[k].assigned_by_admin
                           /\ SESSIONS[k].expires_at >= now}

\* C36: the removal of the only unexpired admin-assigned session of a user
\* leaves the user without one, and the guard does not reject a request whose
\* targeted users have none, be it that their sessions were removed or that
\* their expiry has passed.
C36_GuardPassesAfterRemovalOrExpiry ==
  [][/\ \A u \in DOMAIN USERS : \A k \in DOMAIN SESSIONS :
          LiveAdmin(u) = {k} /\ k \notin DOMAIN SESSIONS' => LiveAdmin(u)' = {}
     /\ \A t \in Threads :
          (Guards(t) /\ \A u \in Targeted(req'[t].assignments) : LiveAdmin(u) = {}) =>
             ~Rejected(t)']_vars

\* a request for alice has passed the guard after the session an earlier
\* request gave her was removed
C36_Witness ==
  /\ Len(WORK_ASSIGNMENTS) = 1
  /\ "u1" \in DOMAIN WORK_ASSIGNMENTS[1].assignments
  /\ \A k \in DOMAIN SESSIONS : SESSIONS[k].username # "alice"
  /\ now = 0
  /\ \E t \in Threads :
       /\ req[t].op = "admin"
       /\ req[t].pc = "admin_classify"
       /\ "u1" \in Targeted(req[t].assignments)

\* a request for alice has passed the guard with her expired session in the store
PassedGuardAfterExpiry ==
  /\ \E k \in DOMAIN SESSIONS :
        /\ SESSIONS[k].username = "alice"
        /\ SESSIONS[k].assigned_by_admin
        /\ SESSIONS[k].expires_at < now
  /\ \E t \in Threads :
       /\ req[t].op = "admin"
       /\ req[t].pc = "admin_classify"
       /\ "u1" \in Targeted(req[t].assignments)

(***************************************************************************)
(* Claims about shares of no rows (Spec)                                   *)
(***************************************************************************)
\* thread t takes the step that runs the planner in percentage mode, with success
PlansPercentage(t) ==
  /\ req[t].pc = "admin_register"
  /\ req[t].assignment_type = "percentage"
  /\ req'[t].pc = "done"
  /\ req'[t].resp.code = 200

\* C37: in percentage mode the planner creates a session for every share of a
\* known user, also when floor(total * percentage / 100) is 0, and then the
\* session is admin-assigned and has no rows; the guard rejects a request that
\* targets a user who owns such an empty session that has not expired.
C37_EmptyShareMakesSession ==
  [][\A t \in Threads :
       /\ PlansPercentage(t) =>
            LET known == KnownShares(req[t].assignments)
                total == Len(req[t].df_clean)
            IN /\ Len(req'[t].created) = Len(known)
               /\ \A i \in 1..Len(known) :
                    /\ req'[t].created[i] \in DOMAIN SESSIONS' \ DOMAIN SESSIONS
                    /\ SESSIONS'[req'[t].created[i]].username = USERS[known[i].userId].username
                    /\ SESSIONS'[req'[t].created[i]].assigned_by_admin
                    /\ ShareCount(known[i], total) = 0 =>
                         SESSIONS'[req'[t].created[i]].data = <<>>
       /\ (/\ Guards(t)
           /\ \E u \in Targeted(req'[t].assignments) : \E k \in LiveAdmin(u) :
                 SESSIONS[k].data = <<>>) =>
             Rejected(t)']_vars

\* a request for bob has been rejected while bob owns an admin-assigned session
\* with no rows that has not expired
C37_Witness ==
  \E t \in Threads :
     /\ Rejected(t)
     /\ "u2" \in Targeted(req[t].assignments)
     /\ \E k \in LiveAdmin("u2") : SESSIONS[k].data = <<>> /\ SESSIONS[k].assigned_count = 0


(***************************************************************************)
(* C38: a handler behind require_auth is entered only by a request whose   *)
(* token is in the token store and has not expired at that step; a request *)
(* found with an expired token never enters the handler and ends with the  *)
(* token out of the store; a logout that ends in success ends with its     *)
(* token out of the store; a token that has left the store never comes     *)
(* back, and a request on a protected route that arrives with a token that *)
(* is not in the store is answered 401 at once.                            *)
(***************************************************************************)
C38_ProtectedHandlerNeedsLiveToken ==
  [][/\ \A t \in Threads :
          (req[t].pc \notin ProtectedRoutes /\ req'[t].pc \in ProtectedRoutes) =>
             /\ req'[t].auth_token \in DOMAIN AUTH_TOKENS
             /\ now <= AUTH_TOKENS[req'[t].auth_token].expires_at
     /\ \A t \in Threads :
          (req[t].pc = "auth_expire" /\ req'[t] # req[t]) =>
             /\ req'[t].pc = "done"
             /\ req'[t].resp.code \in {401, 500}
             /\ req'[t].auth_token \notin DOMAIN AUTH_TOKENS'
     /\ \A t \in Threads :
          (/\ req[t].pc \in {"logout", "logout_delete"}
           /\ req'[t].pc = "done"
           /\ req'[t].resp.code = 200) =>
             req'[t].auth_token \notin DOMAIN AUTH_TOKENS'
     /\ \A k \in 1..tokens : k \notin DOMAIN AUTH_TOKENS => k \notin DOMAIN AUTH_TOKENS'
     /\ \A t \in Threads :
          (/\ started' = started + 1
           /\ req'[t] # req[t]
           /\ req'[t].op \in ProtectedRoutes
           /\ req'[t].auth_token \notin DOMAIN AUTH_TOKENS) =>
             /\ req'[t].pc = "done"
             /\ req'[t].resp.code = 401]_vars

\* a logout has succeeded and a request that presented the same token on a
\* protected route has been answered 401 AUTH_REQUIRED
C38_Witness ==
  \E t1 \in Threads, t2 \in Threads :
    /\ t1 # t2
    /\ req[t1].pc = "done" /\ req[t1].op = "logout" /\ req[t1].resp.code = 200
    /\ req[t2].pc = "done" /\ req[t2].op = "check_assigned_work"
    /\ req[t2].auth_token = req[t1].auth_token
    /\ req[t2].resp.code = 401 /\ req[t2].resp.error = "AUTH_REQUIRED"
    /\ req[t1].auth_token \notin DOMAIN AUTH_TOKENS

\* a request has been answered 401 TOKEN_EXPIRED and its token is out of the store
RejectedAfterExpiry ==
  \E t \in Threads :
    /\ req[t].pc = "done" /\ req[t].op \in ProtectedRoutes
    /\ req[t].resp.code = 401 /\ req[t].resp.error = "TOKEN_EXPIRED"
    /\ req[t].auth_token \notin DOMAIN AUTH_TOKENS


(***************************************************************************)
(* C39: no two records of the user store share a username and no two share *)
(* an email, whatever signups ran and however their steps interleaved.     *)
(***************************************************************************)
C39_UsernamesAndEmailsUnique ==
  \A u1 \in DOMAIN users, u2 \in DOMAIN users :
    u1 # u2 => /\ users[u1].username # users[u2].username
               /\ users[u1].email # users[u2].email

\* a signup that is answered with an error changes neither the user store nor
\* the auth-token store
SignupFailureChangesNothing ==
  [][\A t \in Threads :
       (/\ req'[t] # req[t]
        /\ req'[t].op = "signup"
        /\ req'[t].pc = "done"
        /\ req'[t].resp.code # 200) =>
          /\ users' = users
          /\ AUTH_TOKENS' = AUTH_TOKENS]_vars

\* a signup was answered that the username or the email is taken
SignupRefused ==
  \E t \in Threads :
    /\ req[t].pc = "done" /\ req[t].op = "signup"
    /\ req[t].resp.error \in {"username_exists", "email_exists"}

====
